---- MODULE Spec2Model ----
(***************************************************************************)
(* A model of the embedded document store (Executor, Datastore, Index,     *)
(* Persistence, Cursor) used by the joke server.  One store instance, one  *)
(* event loop: every action below is one run-to-completion callback of     *)
(* the JavaScript code, or a synchronous public call.                      *)
(***************************************************************************)
EXTENDS Integers, Sequences, FiniteSets, TLC

(***************************************************************************)
(* Bounds of the model.                                                    *)
(***************************************************************************)
MaxCalls == 3        \* public calls made on the store after its construction

(***************************************************************************)
(* Values.  A document is a function over the field names "_id" and "x";   *)
(* Undef stands for JavaScript's undefined (the field is absent).          *)
(***************************************************************************)
Undef == 0 - 1
OldDate == 99        \* a Date value older than any expireAfterSeconds
TTLSeconds == 1      \* the expireAfterSeconds given to ensureIndex
NoTTL == 0 - 1       \* options.expireAfterSeconds === undefined

XVals == {Undef, 1, OldDate}

\* an array of two small numbers as a field value: [a, b] is ArrayBase + 10a + b
ArrayBase == 1000
arrayOf(a, b) == ArrayBase + 10 * a + b
isArray(v) == v >= ArrayBase
elements(v) == <<(v - ArrayBase) \div 10, (v - ArrayBase) % 10>>
mkDoc(id, x) == [f \in {"_id", "x"} |-> IF f = "_id" THEN id ELSE x]

(***************************************************************************)
(* A JavaScript call evaluates its arguments once, before the call: CallN  *)
(* is the call of Op on the values of its N arguments.                     *)
(***************************************************************************)
Call1(Op(_), a) == CHOOSE r \in {Op(x) : x \in {a}} : TRUE
Call2(Op(_, _), a, b) == CHOOSE r \in {Op(x, y) : x \in {a}, y \in {b}} : TRUE
Call3(Op(_, _, _), a, b, c) ==
  CHOOSE r \in {Op(x, y, z) : x \in {a}, y \in {b}, z \in {c}} : TRUE
Call4(Op(_, _, _, _), a, b, c, d) ==
  CHOOSE r \in {Op(x, y, z, w) : x \in {a}, y \in {b}, z \in {c}, w \in {d}} : TRUE

\* model.getDotValue(doc, fieldName), for the two top-level fields
getDotValue(doc, fieldName) == doc[fieldName]

(***************************************************************************)
(* Index (indexes.js).  An index is [fieldName, unique, sparse, tree]; the *)
(* tree of the binary search tree is the set of its <<key, document>>      *)
(* entries.  Operations that can throw return [err, ix].                   *)
(***************************************************************************)
newIndex(fieldName, unique, sparse) ==
  [fieldName |-> fieldName, unique |-> unique, sparse |-> sparse, tree |-> {}]

\* a tree that takes a key it already holds even when it is unique
treeInsertUnchecked(ix, key, doc) ==
  [err |-> FALSE, ix |-> [ix EXCEPT !.tree = @ \cup {<<key, doc>>}]]

\* this.tree.insert(key, doc): a unique tree refuses a key it already holds
treeInsert(ix, key, doc) ==
  IF ix.unique /\ \E e \in ix.tree : e[1] = key
    THEN [err |-> TRUE, ix |-> ix]
    ELSE [err |-> FALSE, ix |-> [ix EXCEPT !.tree = @ \cup {<<key, doc>>}]]

\* this.tree.delete(key, doc): removes that document only (pointer equality)
treeDelete(ix, key, doc) == [ix EXCEPT !.tree = @ \ {<<key, doc>>}]

\* uniq(key, projectForUnique): the elements of the array, each once
uniq(key) == IF key[1] = key[2] THEN <<key[1]>> ELSE key

RECURSIVE treeDeleteKeys(_, _, _, _)
\* this.tree.delete(keys[i], doc) for the keys before position to
treeDeleteKeys(ix, keys, doc, to) ==
  IF to <= 1 THEN ix
  ELSE Call4(treeDeleteKeys, treeDelete(ix, keys[to - 1], doc), keys, doc, to - 1)

\* an insert of an array-valued key that keeps the keys inserted before a failure
insertKeysNoRollback(ix, keys, doc, i) ==
  LET a == treeInsert(ix, keys[1], doc) IN
  IF a.err \/ Len(keys) = 1 THEN a
  ELSE [err |-> treeInsert(a.ix, keys[2], doc).err, ix |-> treeInsert(a.ix, keys[2], doc).ix]

RECURSIVE insertKeys(_, _, _, _)
\* Index.insert of a document whose key is an array: one tree.insert per key
\* from position i on; a failure deletes the keys inserted before it
insertKeys(ix, keys, doc, i) ==
  IF i > Len(keys) THEN [err |-> FALSE, ix |-> ix]
  ELSE LET r == treeInsert(ix, keys[i], doc) IN
       IF r.err THEN [err |-> TRUE, ix |-> treeDeleteKeys(ix, keys, doc, i)]
       ELSE Call4(insertKeys, r.ix, keys, doc, i + 1)

\* Index.insert of one document
IndexInsert(ix, doc) ==
  LET key == getDotValue(doc, ix.fieldName) IN
  IF key = Undef /\ ix.sparse THEN [err |-> FALSE, ix |-> ix]
  ELSE IF ~isArray(key) THEN treeInsert(ix, key, doc)
  ELSE insertKeys(ix, uniq(elements(key)), doc, 1)

\* Index.remove of one document
IndexRemove(ix, doc) ==
  LET key == getDotValue(doc, ix.fieldName) IN
  IF key = Undef /\ ix.sparse THEN ix
  ELSE IF ~isArray(key) THEN treeDelete(ix, key, doc)
  ELSE treeDeleteKeys(ix, uniq(elements(key)), doc, Len(uniq(elements(key))) + 1)

\* Index.remove of an array: doc.forEach(d => this.remove(d)), for docs[from..to]
RECURSIVE IndexRemoveRange(_, _, _, _)
IndexRemoveRange(ix, docs, from, to) ==
  IF from > to THEN ix
  ELSE Call4(IndexRemoveRange, IndexRemove(ix, docs[from]), docs, from + 1, to)

\* the insertion loop of insertMultipleDocs: stops at the first failing document
RECURSIVE IndexInsertLoop(_, _, _)
IndexInsertLoop(ix, docs, i) ==
  IF i > Len(docs) THEN [err |-> FALSE, ix |-> ix, failingIndex |-> 0]
  ELSE LET r == IndexInsert(ix, docs[i]) IN
       IF r.err THEN [err |-> TRUE, ix |-> ix, failingIndex |-> i]
       ELSE Call3(IndexInsertLoop, r.ix, docs, i + 1)

\* Index.insertMultipleDocs: on a failure the documents before it are removed
insertMultipleDocsEnd(r, docs) ==
  IF r.err
    THEN [err |-> TRUE, ix |-> IndexRemoveRange(r.ix, docs, 1, r.failingIndex - 1)]
    ELSE [err |-> FALSE, ix |-> r.ix]

insertMultipleDocs(ix, docs) ==
  Call2(insertMultipleDocsEnd, Call3(IndexInsertLoop, ix, docs, 1), docs)

\* Index.reset(newData): a new tree, then insert(newData) if given
IndexReset(ix, hasData, newData) ==
  LET empty == [ix EXCEPT !.tree = {}] IN
  IF hasData THEN Call2(insertMultipleDocs, empty, newData)
  ELSE [err |-> FALSE, ix |-> empty]

OldDocs(pairs) == [i \in 1 .. Len(pairs) |-> pairs[i].oldDoc]
NewDocs(pairs) == [i \in 1 .. Len(pairs) |-> pairs[i].newDoc]

RECURSIVE IndexInsertAll(_, _, _)
\* for (i...) this.insert(pairs[i].oldDoc): the re-insertion of the rollback
IndexInsertAll(ix, docs, i) ==
  IF i > Len(docs) THEN ix
  ELSE Call3(IndexInsertAll, IndexInsert(ix, docs[i]).ix, docs, i + 1)

\* Index.updateMultipleDocs(pairs)
updateMultipleDocsEnd(r, pairs) ==
  IF r.err
    THEN [err |-> TRUE,
          ix |-> Call3(IndexInsertAll,
                       IndexRemoveRange(r.ix, NewDocs(pairs), 1, r.failingIndex - 1),
                       OldDocs(pairs), 1)]
    ELSE [err |-> FALSE, ix |-> r.ix]

updateMultipleDocs(ix, pairs) ==
  Call2(updateMultipleDocsEnd,
        Call3(IndexInsertLoop,
              IndexRemoveRange(ix, OldDocs(pairs), 1, Len(pairs)), NewDocs(pairs), 1),
        pairs)

\* a revertUpdate that leaves the index as the update made it
revertUpdateSkipped(ix, pairs) == ix

\* Index.revertUpdate(pairs): update with every pair swapped
revertUpdate(ix, pairs) ==
  updateMultipleDocs(ix,
    [i \in 1 .. Len(pairs) |-> [oldDoc |-> pairs[i].newDoc, newDoc |-> pairs[i].oldDoc]]).ix

\* Index.getMatching(value): this.tree.search(value)
getMatching(ix, value) == {e[2] : e \in {p \in ix.tree : p[1] = value}}

\* Index.getAll(): every document of every node
getAll(ix) == {e[2] : e \in ix.tree}

(***************************************************************************)
(* Datastore (datastore.js), the in-memory part.  this.indexes is the      *)
(* sequence of the indexes in the order of Object.keys(this.indexes).      *)
(***************************************************************************)
indexNames(ixs) == {ixs[i].fieldName : i \in 1 .. Len(ixs)}
indexOf(ixs, fieldName) == CHOOSE i \in 1 .. Len(ixs) : ixs[i].fieldName = fieldName

\* the documents of a set as an array in ascending _id order (in-order traversal)
RECURSIVE SortById(_)
SortById(S) ==
  IF S = {} THEN <<>>
  ELSE LET first(d) == <<d>> \o Call1(SortById, S \ {d})
       IN Call1(first, CHOOSE e \in S : \A o \in S : e["_id"] <= o["_id"])

\* Datastore.getAllData(): this.indexes._id.getAll()
getAllData(ixs) == getAll(ixs[indexOf(ixs, "_id")])

\* addToIndexes without its rollback: the indexes filled before the failure keep doc
removeFromFirstSkipped(ixs, doc, failingIndex) == ixs

\* the rollback loops of addToIndexes: indexes[keys[j]].remove(doc) for j < failingIndex
removeFromFirst(ixs, doc, failingIndex) ==
  [j \in 1 .. Len(ixs) |-> IF j < failingIndex THEN IndexRemove(ixs[j], doc) ELSE ixs[j]]

RECURSIVE addToIndexesLoop(_, _, _)
addToIndexesLoop(ixs, doc, i) ==
  IF i > Len(ixs) THEN [err |-> FALSE, ixs |-> ixs]
  ELSE LET r == IndexInsert(ixs[i], doc) IN
       IF r.err THEN [err |-> TRUE, ixs |-> removeFromFirst(ixs, doc, i)]
       ELSE Call3(addToIndexesLoop, [ixs EXCEPT ![i] = r.ix], doc, i + 1)

\* Datastore.addToIndexes(doc)
addToIndexes(ixs, doc) == Call3(addToIndexesLoop, ixs, doc, 1)

\* a removal that takes the document out of the _id index only
removeFromIndexesIdOnly(ixs, doc) ==
  [j \in 1 .. Len(ixs) |->
     IF ixs[j].fieldName = "_id" THEN IndexRemove(ixs[j], doc) ELSE ixs[j]]

\* Datastore.removeFromIndexes(doc)
removeFromIndexes(ixs, doc) == [j \in 1 .. Len(ixs) |-> IndexRemove(ixs[j], doc)]

\* a rollback that leaves the documents already added where they are
removeAllFromIndexesSkipped(ixs, docs, to) == ixs

RECURSIVE removeAllFromIndexes(_, _, _)
\* removeFromIndexes for preparedDocs[1 .. to]
removeAllFromIndexes(ixs, docs, to) ==
  IF to = 0 THEN ixs
  ELSE Call3(removeAllFromIndexes, removeFromIndexes(ixs, docs[to]), docs, to - 1)

RECURSIVE insertMultipleDocsInCacheLoop(_, _, _)
insertMultipleDocsInCacheLoop(ixs, docs, i) ==
  IF i > Len(docs) THEN [err |-> FALSE, ixs |-> ixs]
  ELSE LET r == addToIndexes(ixs, docs[i]) IN
       IF r.err THEN [err |-> TRUE, ixs |-> removeAllFromIndexes(r.ixs, docs, i - 1)]
       ELSE Call3(insertMultipleDocsInCacheLoop, r.ixs, docs, i + 1)

\* Datastore._insertInCache(preparedDoc), preparedDoc being an array of documents
insertInCache(ixs, docs) ==
  IF Len(docs) = 1 THEN addToIndexes(ixs, docs[1])
  ELSE Call3(insertMultipleDocsInCacheLoop, ixs, docs, 1)

RECURSIVE updateIndexesLoop(_, _, _)
updateIndexesLoop(ixs, pairs, i) ==
  IF i > Len(ixs) THEN [err |-> FALSE, ixs |-> ixs]
  ELSE LET r == updateMultipleDocs(ixs[i], pairs) IN
       IF r.err
         THEN [err |-> TRUE,
               ixs |-> [j \in 1 .. Len(ixs) |->
                          IF j < i THEN revertUpdate(ixs[j], pairs)
                          ELSE IF j = i THEN r.ix ELSE ixs[j]]]
         ELSE Call3(updateIndexesLoop, [ixs EXCEPT ![i] = r.ix], pairs, i + 1)

\* Datastore.updateIndexes(modifications)
updateIndexes(ixs, pairs) == Call3(updateIndexesLoop, ixs, pairs, 1)

RECURSIVE resetIndexesLoop(_, _, _, _)
\* Datastore.resetIndexes(newData): the loop stops at the first index that throws
resetIndexesLoop(ixs, hasData, newData, i) ==
  IF i > Len(ixs) THEN [err |-> FALSE, ixs |-> ixs]
  ELSE LET r == IndexReset(ixs[i], hasData, newData) IN
       IF r.err THEN [err |-> TRUE, ixs |-> [ixs EXCEPT ![i] = r.ix]]
       ELSE Call4(resetIndexesLoop, [ixs EXCEPT ![i] = r.ix], hasData, newData, i + 1)

resetIndexes(ixs, hasData, newData) == Call4(resetIndexesLoop, ixs, hasData, newData, 1)

\* a createNewId that takes the first attempt whether or not it is in use
createNewIdNoRetry(ixs, attemptId) == attemptId

RECURSIVE createNewId(_, _)
\* Datastore.createNewId(): attempt is the identifier customUtils.uid(16) yields
createNewId(ixs, attemptId) ==
  IF getMatching(ixs[indexOf(ixs, "_id")], attemptId) # {}
    THEN Call2(createNewId, ixs, attemptId + 1)
    ELSE attemptId

(***************************************************************************)
(* Persistence (persistence.js).  The datafile is the sequence of its      *)
(* lines, each ended by a newline; a line is the JSON object written, a    *)
(* function from its keys to its values.                                   *)
(***************************************************************************)
\* model.serialize(doc): JSON drops the fields that are undefined
serialize(doc) == [k \in {f \in DOMAIN doc : doc[f] # Undef} |-> doc[k]]

\* the tombstone { $$deleted: true, _id } that _remove persists
tombstone(id) == [k \in {"$$deleted", "_id"} |-> IF k = "_id" THEN id ELSE 1]

\* { $$indexCreated: options }
indexCreated(options) == [k \in {"$$indexCreated"} |-> options]

\* { $$indexRemoved: fieldName }
indexRemoved(fieldName) == [k \in {"$$indexRemoved"} |-> fieldName]

\* a line that JSON.parse refuses; the text after the last newline is one
Garbage == [k \in {"$$garbage"} |-> 1]

\* the options of an index: expireAfterSeconds is NoTTL when the caller gave none
indexOptions(fieldName, unique, sparse, expireAfterSeconds) ==
  [fieldName |-> fieldName, unique |-> unique, sparse |-> sparse,
   expireAfterSeconds |-> expireAfterSeconds]

\* model.deserialize of a document line: the fields JSON does not hold are undefined
deserialize(line) ==
  [f \in {"_id", "x"} |-> IF f \in DOMAIN line THEN line[f] ELSE Undef]

\* JavaScript truthiness of an _id (the number 0 is falsy)
truthy(v) == v # 0 /\ v # Undef

\* storage.appendFile: contents += toAppend
appendFile(contents, toAppend) == contents \o toAppend

\* a write that stops short of the last line of contents
writeFileTorn(old, contents) == SubSeq(contents, 1, Len(contents) - 1)

\* storage.writeFile / crashSafeWriteFile: store.setItem(filename, contents),
\* the item becomes contents
writeFile(old, contents) == contents

\* the lines persistCachedDatabase writes: every document, then a marker
\* for every index but _id
toPersist(docs, others) ==
  [i \in 1 .. Len(docs) |-> serialize(docs[i])]
  \o [i \in 1 .. Len(others) |->
        indexCreated(indexOptions(others[i].fieldName, others[i].unique,
                                  others[i].sparse, NoTTL))]

cachedDatabaseLines(ixs) ==
  Call2(toPersist, SortById(getAllData(ixs)),
        SelectSeq(ixs, LAMBDA ix : ix.fieldName # "_id"))

\* rawData.split('\n'): the lines and the empty text after the last newline
splitLines(file) == file \o <<Garbage>>

\* one step of the loop of treatRawData over a datum
treatDatum(acc, datum) ==
  IF "$$garbage" \in DOMAIN datum
    THEN [acc EXCEPT !.corruptItems = @ + 1]
  ELSE IF "_id" \in DOMAIN datum /\ truthy(datum["_id"])
    THEN IF "$$deleted" \in DOMAIN datum
           THEN [acc EXCEPT !.dataById = {d \in @ : d["_id"] # datum["_id"]}]
           ELSE [acc EXCEPT !.dataById =
                   {d \in @ : d["_id"] # datum["_id"]} \cup {deserialize(datum)}]
  ELSE IF "$$indexCreated" \in DOMAIN datum
    THEN LET o == datum["$$indexCreated"]
             at == {i \in 1 .. Len(acc.indexes) : acc.indexes[i].fieldName = o.fieldName}
         IN [acc EXCEPT !.indexes =
               IF at = {} THEN Append(@, o)
               ELSE [i \in 1 .. Len(@) |-> IF i \in at THEN o ELSE @[i]]]
  ELSE IF "$$indexRemoved" \in DOMAIN datum
    THEN [acc EXCEPT !.indexes =
            SelectSeq(@, LAMBDA o : o.fieldName # datum["$$indexRemoved"])]
  ELSE acc

RECURSIVE treatLoop(_, _, _)
treatLoop(acc, data, i) ==
  IF i > Len(data) THEN acc
  ELSE Call3(treatLoop, Call2(treatDatum, acc, data[i]), data, i + 1)

\* Persistence.treatRawData(rawData): [err, data, indexes]
treatRawDataEnd(acc, data) ==
  [err |-> Len(data) > 0 /\ 10 * acc.corruptItems > Len(data),
   data |-> SortById(acc.dataById),
   indexes |-> acc.indexes]

treatRawData(rawData) ==
  Call2(treatRawDataEnd,
        Call3(treatLoop, [dataById |-> {}, indexes |-> <<>>, corruptItems |-> 0 - 1],
              splitLines(rawData), 1),
        splitLines(rawData))

RECURSIVE recreateIndexes(_, _, _)
\* this.db.indexes[key] = new Index(treatedData.indexes[key]) for every key
recreateIndexes(ixs, options, i) ==
  IF i > Len(options) THEN ixs
  ELSE LET o == options[i]
           n == newIndex(o.fieldName, o.unique, o.sparse)
       IN Call3(recreateIndexes,
                IF o.fieldName \in indexNames(ixs)
                  THEN [ixs EXCEPT ![indexOf(ixs, o.fieldName)] = n]
                  ELSE Append(ixs, n),
                options, i + 1)

(***************************************************************************)
(* model.js and the queries of the model.  A query is a function from the  *)
(* fields it constrains to the value each must equal; {} is the empty one. *)
(***************************************************************************)
EmptyQuery == [f \in {} |-> 0]
queryOn(fieldName, value) == [f \in {fieldName} |-> value]

\* model.match(doc, query) for equality queries
match(doc, query) == \A f \in DOMAIN query : getDotValue(doc, f) = query[f]

\* model.modify(doc, updateQuery): $set x / a replacement document, _id kept
modify(doc, updateQuery) == mkDoc(doc["_id"], updateQuery.x)

\* the document an upsert inserts: updateQuery itself when it has no modifier,
\* else the query stripped of its operators, modified by updateQuery
toBeInserted(query, updateQuery) ==
  IF updateQuery.kind = "replace" THEN mkDoc(Undef, updateQuery.x)
  ELSE mkDoc(IF "_id" \in DOMAIN query THEN query["_id"] ELSE Undef, updateQuery.x)

Now == 100000
isDate(v) == v = OldDate

\* getCandidates, step 2: the document is past the age of a TTL field
stale(doc, ttl) ==
  \E i \in DOMAIN ttl :
    doc[i] # Undef /\ isDate(doc[i]) /\ Now > doc[i] + ttl[i] * 1000

\* getCandidates, step 1: the first usable indexed key of the query, else all data
candidatesOf(ixs, query) ==
  LET usableQueryKeys ==
        SelectSeq(<<"_id", "x">>,
                  LAMBDA k : k \in DOMAIN query /\ k \in indexNames(ixs))
  IN IF Len(usableQueryKeys) > 0
       THEN getMatching(ixs[indexOf(ixs, usableQueryKeys[1])], query[usableQueryKeys[1]])
       ELSE getAllData(ixs)

(***************************************************************************)
(* The state of one persistent store and of its event loop.                *)
(***************************************************************************)
VARIABLES
  file,        \* the datafile: the sequence of its lines
  indexes,     \* Datastore.indexes
  ttlIndexes,  \* Datastore.ttlIndexes: field name -> expireAfterSeconds
  ready,       \* Executor.ready
  buffer,      \* Executor.buffer
  queue,       \* the tasks of Executor.queue that wait
  workers,     \* the number of running workers of the queue
  active,      \* the tasks whose worker was called and has not signalled completion
  cur,         \* the task being run
  pc,          \* where the running task is suspended
  tick,        \* "busy" inside a synchronous continuation, else "free"
  cand,        \* getCandidates: the candidate (then the valid) documents
  expired,     \* getCandidates: expiredDocsIds and the position of eachSeries in it
  ret,         \* the caller getCandidates calls back
  num,         \* numReplaced of _update / numRemoved of _remove
  pending,     \* the lines of the storage call in flight for the running task
  cacheAtLoad, \* history: the documents in memory when the running loadDatabase began
  markers,     \* the appends in flight issued by ensureIndex / removeIndex
  nextId,      \* the next identifier customUtils.uid yields
  nSub,        \* the number of tasks submitted
  nIdx,        \* the number of ensureIndex / removeIndex calls
  indexCalls,  \* what each of them was asked and did before it returned
  started,     \* the tasks in the order their worker was called
  submitted,   \* submitted[n]: the operation of task n and whether it has a callback
  calls,       \* calls[n]: the outcomes the caller's callback of task n was invoked with
  results,     \* results[n]: what each of those invocations reported
  ioFailed,    \* a storage call has reported an error
  heap,        \* the objects of the process: heap[a] is the document at address a
  storeRefs,   \* the addresses of the documents the indexes hold
  callerRefs,  \* the addresses of the documents the caller holds
  inserted,    \* the documents of a store in the order they were inserted
  fIndex,      \* its index on the field f: the documents in the order it received them
  cursorRes,   \* the last cursor run on that store and the array it produced
  inMemoryOnly,\* Persistence.inMemoryOnly of a store whose appends are followed
  appends,     \* the appendFile calls in flight on its datafile
  persisted,   \* the number of persistNewState calls that called back
  candRun,     \* a call of getCandidates on a store: its inputs and its candidates
  ixUnit,      \* an Index on the field x, used on its own
  ixCall,      \* the last call made on it: its number and whether it threw
  cursor,      \* a Cursor object: its query and what sort, skip, limit, projection set
  cursorRuns   \* what each exec of that cursor called back with

copyVars == <<heap, storeRefs, callerRefs>>
cursorVars == <<inserted, fIndex, cursorRes>>
appendVars == <<inMemoryOnly, appends, persisted>>
indexVars == <<ixUnit, ixCall>>
projVars == <<cursor, cursorRuns>>
unitVars == <<candRun, indexVars, projVars>>

vars == <<file, indexes, ttlIndexes, ready, buffer, queue, workers, active, cur, pc,
          tick, cand, expired, ret, num, pending, cacheAtLoad, markers, nextId, nSub, nIdx, indexCalls,
          started, submitted, calls, results, ioFailed, copyVars, cursorVars, appendVars, unitVars>>

\* a queue built with one worker too many
ConcurrencyTwo == 1 + 1

\* async.queue(worker, 1)
Concurrency == 1

NoUpdate == [kind |-> "replace", x |-> Undef]
mkTask(n, op, hasCb, docs, query, upd, multi, upsert) ==
  [n |-> n, op |-> op, hasCb |-> hasCb, docs |-> docs, query |-> query,
   upd |-> upd, multi |-> multi, upsert |-> upsert]
NoTask == mkTask(0, "none", FALSE, <<>>, EmptyQuery, NoUpdate, FALSE, FALSE)

\* the inputs of the public calls
InsertInputs ==
  {<<mkDoc(Undef, x)>> : x \in XVals}
  \cup {<<mkDoc(0, 1)>>, <<mkDoc(1, 1)>>, <<mkDoc(1, Undef)>>}
  \cup {<<mkDoc(Undef, x), mkDoc(Undef, 1)>> : x \in {Undef, 1}}
  \* the _id customUtils.uid yields next; one _id twice; an _id of the initial logs
  \cup {<<mkDoc(10, 1)>>, <<mkDoc(3, Undef), mkDoc(3, 1)>>,
        <<mkDoc(Undef, Undef), mkDoc(1, Undef)>>}
Queries == {EmptyQuery, queryOn("_id", 1), queryOn("x", 1)}
UpdateInputs ==
  {[query |-> EmptyQuery, upd |-> [kind |-> "set", x |-> 1], multi |-> TRUE, upsert |-> FALSE],
   [query |-> EmptyQuery, upd |-> [kind |-> "set", x |-> OldDate], multi |-> FALSE, upsert |-> FALSE],
   [query |-> queryOn("x", 1), upd |-> [kind |-> "set", x |-> OldDate], multi |-> TRUE, upsert |-> FALSE],
   [query |-> queryOn("_id", 1), upd |-> [kind |-> "set", x |-> 1], multi |-> FALSE, upsert |-> TRUE],
   [query |-> queryOn("x", 1), upd |-> [kind |-> "replace", x |-> 1], multi |-> FALSE, upsert |-> TRUE]}
RemoveInputs ==
  {[query |-> EmptyQuery, multi |-> TRUE],
   [query |-> queryOn("x", 1), multi |-> FALSE],
   [query |-> queryOn("_id", 1), multi |-> FALSE]}

\* the datafile an earlier run of the program left behind
\* no expired document: an empty expiredDocsIds
NoExpired == [ids |-> <<>>, at |-> 1]

InitFiles ==
  {<<>>,
   <<serialize(mkDoc(1, OldDate)), serialize(mkDoc(2, 1))>>,
   <<serialize(mkDoc(1, 1)), serialize(mkDoc(2, Undef)),
     indexCreated(indexOptions("x", TRUE, FALSE, NoTTL))>>,
   \* nine lines, one of them corrupt; eight are versions of one document
   [i \in 1 .. 9 |-> IF i = 5 THEN Garbage ELSE serialize(mkDoc(1, 1))],
   \* two lines, one of them corrupt
   <<Garbage, serialize(mkDoc(1, 1))>>,
   \* two documents that violate the unique index the log defines
   <<serialize(mkDoc(1, 1)), serialize(mkDoc(2, 1)),
     indexCreated(indexOptions("x", TRUE, FALSE, NoTTL))>>,
   \* two documents with the same x and no index
   <<serialize(mkDoc(1, 1)), serialize(mkDoc(2, 1))>>}

\* the Datastore and its Executor after construction
constructed ==
  /\ indexes = <<newIndex("_id", TRUE, FALSE)>>
  /\ ttlIndexes = [f \in {} |-> 0]
  /\ ready = FALSE
  /\ buffer = <<>>
  /\ queue = <<>>
  /\ workers = 0
  /\ active = {}
  /\ cur = NoTask
  /\ pc = "idle"
  /\ tick = "free"
  /\ cand = {}
  /\ expired = NoExpired
  /\ ret = "none"
  /\ num = 0
  /\ pending = <<>>
  /\ cacheAtLoad = {}
  /\ markers = <<>>
  /\ nextId = 10
  /\ nSub = 0
  /\ nIdx = 0
  /\ indexCalls = <<>>
  /\ started = <<>>
  /\ submitted = <<>>
  /\ calls = <<>>
  /\ results = <<>>
  /\ ioFailed = FALSE

\* no object is followed, and no cursor has run
NoRun == [query |-> EmptyQuery, sort |-> <<>>, skip |-> Undef, limit |-> Undef,
          res |-> <<>>]
NoObjects == heap = <<>> /\ storeRefs = {} /\ callerRefs = {}
NoIndex == [on |-> FALSE, docs |-> <<>>]
NoCursor == inserted = <<>> /\ fIndex = NoIndex /\ cursorRes = NoRun
NoAppends == inMemoryOnly = FALSE /\ appends = <<>> /\ persisted = 0
NoCall == [made |-> FALSE]
NoUnits ==
  /\ candRun = NoCall
  /\ ixUnit = newIndex("x", FALSE, FALSE)
  /\ ixCall = [n |-> 0, err |-> FALSE]
  /\ cursor = NoCall
  /\ cursorRuns = <<>>

Init ==
  /\ file \in InitFiles
  /\ constructed
  /\ NoObjects
  /\ NoCursor
  /\ NoAppends
  /\ NoUnits

storeVars == <<file, indexes, ttlIndexes>>
execVars == <<ready, buffer, queue, workers, active, started>>
taskVars == <<cur, pc, tick, cand, expired, ret, num, pending, cacheAtLoad>>
persistentVars == <<storeVars, execVars, taskVars, markers, nextId, nSub, nIdx,
                    indexCalls, submitted, calls, results, ioFailed>>

(***************************************************************************)
(* Executor (executor.js) and the public calls that push a task.           *)
(***************************************************************************)
\* a push that queues whatever the executor's readiness
pushAlwaysQueues(task, forceQueuing) ==
  /\ queue' = Append(queue, task)
  /\ buffer' = buffer

\* Executor.push(task, forceQuuing)
push(task, forceQueuing) ==
  IF ready \/ forceQueuing
    THEN /\ queue' = Append(queue, task)
         /\ buffer' = buffer
    ELSE /\ buffer' = Append(buffer, task)
         /\ queue' = queue

\* a public call that goes through the executor
Submit(op, hasCb, docs, query, upd, multi, upsert) ==
  /\ tick = "free"
  /\ nSub + nIdx < MaxCalls
  /\ nSub' = nSub + 1
  /\ calls' = Append(calls, <<>>)
  /\ results' = Append(results, <<>>)
  /\ submitted' = Append(submitted, [op |-> op, hasCb |-> hasCb])
  /\ push(mkTask(nSub + 1, op, hasCb, docs, query, upd, multi, upsert), op = "load")
  /\ UNCHANGED <<storeVars, taskVars, ready, workers, active, started,
                 markers, nextId, nIdx, indexCalls, ioFailed, copyVars, cursorVars, appendVars, unitVars>>

\* Datastore.insert(newDoc, callback)
insert ==
  \E docs \in InsertInputs, hasCb \in BOOLEAN :
    /\ hasCb \/ docs = <<mkDoc(Undef, 1)>>
    /\ Submit("insert", hasCb, docs, EmptyQuery, NoUpdate, FALSE, FALSE)

\* Cursor.exec(callback), reached from find / findOne / count
exec ==
  \E query \in Queries :
    Submit("find", TRUE, <<>>, query, NoUpdate, FALSE, FALSE)

\* Datastore.update(query, updateQuery, options, callback)
update ==
  \E u \in UpdateInputs :
    Submit("update", TRUE, <<>>, u.query, u.upd, u.multi, u.upsert)

\* Datastore.remove(query, options, callback)
remove ==
  \E r \in RemoveInputs :
    Submit("remove", TRUE, <<>>, r.query, NoUpdate, r.multi, FALSE)

\* Persistence.compactDatafile()
compactDatafile == Submit("compact", FALSE, <<>>, EmptyQuery, NoUpdate, FALSE, FALSE)

\* Datastore.loadDatabase(callback)
loadDatabase == Submit("load", TRUE, <<>>, EmptyQuery, NoUpdate, FALSE, FALSE)

\* q.process of async.queue: a waiting task is handed to the worker
Process ==
  /\ workers < Concurrency
  /\ queue # <<>>
  /\ tick = "free" \/ pc = "next"
  /\ workers' = workers + 1
  /\ cur' = Head(queue)
  /\ queue' = Tail(queue)
  /\ active' = active \cup {Head(queue).n}
  /\ started' = Append(started, Head(queue).n)
  /\ pc' = "begin"
  /\ tick' = "busy"
  /\ UNCHANGED <<storeVars, ready, buffer, cand, expired, ret, num, pending,
                 cacheAtLoad, markers, nextId, nSub, submitted, copyVars, cursorVars, appendVars, unitVars, nIdx, indexCalls, calls, results,
                 ioFailed>>

\* what a callback reports besides its error: callback(null, numAffected) of
\* _update and _remove, callback(null, 1, newDoc, true) of an upsert
affected(n, upsert) == [numAffected |-> n, upsert |-> upsert]
NoValue == affected(0 - 1, FALSE)

\* callback(null, res) of Datastore.find: the documents of the array res
found(docs) == [numAffected |-> 0 - 1, upsert |-> FALSE, docs |-> docs]

\* a wrapper that signals completion and forgets the caller's callback
wrapperForgetsCallback(hasCb) == 0

\* the wrapper the worker installs as last argument: how often it calls the
\* caller's callback
wrapperCalls(hasCb) == IF hasCb THEN 1 ELSE 0

\* the task calls its callback: the caller's callback runs, and completion is
\* signalled by setImmediate(cb) (a callback was given) or by cb() at once
DeliverValue(outcome, value) ==
  /\ calls' = [calls EXCEPT ![cur.n] =
                 @ \o [i \in 1 .. wrapperCalls(cur.hasCb) |-> outcome]]
  /\ results' = [results EXCEPT ![cur.n] =
                   @ \o [i \in 1 .. wrapperCalls(cur.hasCb) |-> value]]
  /\ pc' = "signalled"
  /\ tick' = IF cur.hasCb THEN "free" ELSE "busy"

\* a callback called with an error, or with values the model does not keep
Deliver(outcome) == DeliverValue(outcome, NoValue)

\* next() of async.queue: the worker's cb fires, then q.process() runs
Complete ==
  /\ pc = "signalled"
  /\ workers' = workers - 1
  /\ active' = active \ {cur.n}
  /\ cur' = NoTask
  /\ pc' = IF queue # <<>> THEN "next" ELSE "idle"
  /\ tick' = IF queue # <<>> THEN "busy" ELSE "free"
  /\ cand' = {}
  /\ expired' = NoExpired
  /\ ret' = "none"
  /\ num' = 0
  /\ pending' = <<>>
  /\ cacheAtLoad' = {}
  /\ UNCHANGED <<storeVars, ready, buffer, queue, started, markers, nextId,
                 nSub, submitted, copyVars, cursorVars, appendVars, unitVars, nIdx, indexCalls, calls, results, ioFailed>>

(***************************************************************************)
(* Datastore._insert and Persistence.persistNewState.                      *)
(***************************************************************************)
RECURSIVE prepareLoop(_, _, _, _)
\* prepareDocumentForInsertion over the array: [docs, nextId]
prepareLoop(ixs, docs, i, attemptId) ==
  IF i > Len(docs) THEN [docs |-> docs, nextId |-> attemptId]
  ELSE IF docs[i]["_id"] = Undef
    THEN LET id == createNewId(ixs, attemptId)
         IN Call4(prepareLoop, ixs, [docs EXCEPT ![i] = mkDoc(id, docs[i]["x"])],
                  i + 1, id + 1)
    ELSE Call4(prepareLoop, ixs, docs, i + 1, attemptId)

prepareDocumentForInsertion(ixs, docs, attemptId) == prepareLoop(ixs, docs, 1, attemptId)

\* persistNewState(newDocs, callback) of the running task: nothing to write calls
\* back at once, else the append is in flight
persistNewState(lines, after, value) ==
  IF Len(lines) = 0
    THEN /\ DeliverValue("ok", value)
         /\ pending' = <<>>
    ELSE /\ pc' = after
         /\ tick' = "free"
         /\ pending' = lines
         /\ calls' = calls /\ results' = results

\* Datastore._insert(newDoc, callback), up to the append
insertDocs(docs) ==
  \E prep \in {prepareDocumentForInsertion(indexes, docs, nextId)} :
    \E r \in {insertInCache(indexes, prep.docs)} :
      /\ nextId' = prep.nextId
      /\ indexes' = r.ixs
      /\ IF r.err
           THEN Deliver("err") /\ pending' = <<>>
           ELSE persistNewState([i \in 1 .. Len(prep.docs) |-> serialize(prep.docs[i])],
                                "append", NoValue)

Begin_insert ==
  /\ pc = "begin"
  /\ cur.op = "insert"
  /\ insertDocs(cur.docs)
  /\ UNCHANGED <<file, ttlIndexes, execVars, cur, cacheAtLoad, cand, expired, ret, num,
                 markers, nSub, submitted, copyVars, cursorVars, appendVars, unitVars, nIdx, indexCalls, ioFailed>>

\* what the callback persistNewState was given reports on success: _insert
\* under an upsert reports (1, newDoc, true), _update numReplaced, _remove
\* numRemoved
appendValue ==
  IF cur.op = "update" /\ ret = "upsert" THEN affected(1, TRUE)
  ELSE IF cur.op \in {"update", "remove"} THEN affected(num, FALSE)
  ELSE NoValue

\* the callback of storage.appendFile for the running task's persistNewState
AppendDone ==
  /\ pc = "append"
  /\ tick = "free"
  /\ \E err \in BOOLEAN :
       /\ file' = IF err THEN file ELSE appendFile(file, pending)
       /\ ioFailed' = (ioFailed \/ err)
       /\ IF err THEN Deliver("err") ELSE DeliverValue("ok", appendValue)
  /\ pending' = <<>>
  /\ UNCHANGED <<indexes, ttlIndexes, execVars, cur, cacheAtLoad, cand, expired, ret, num,
                 markers, nextId, nSub, submitted, copyVars, cursorVars, appendVars, unitVars, nIdx, indexCalls>>

(***************************************************************************)
(* Datastore.getCandidates and its callers: Cursor._exec, _update, _remove *)
(***************************************************************************)
\* the tasks that start by asking for candidates
Begin_candidates ==
  /\ pc = "begin"
  /\ cur.op \in {"find", "update", "remove"}
  /\ pc' = "cand1"
  /\ tick' = "free"
  /\ ret' = IF cur.op = "find" THEN "exec"
            ELSE IF cur.op = "remove" THEN "remove"
            ELSE IF cur.upsert THEN "upsert" ELSE "update"
  /\ UNCHANGED <<storeVars, execVars, cur, cacheAtLoad, cand, expired, num, pending, markers,
                 nextId, nSub, submitted, copyVars, cursorVars, appendVars, unitVars, nIdx, indexCalls, calls, results, ioFailed>>

\* getCandidates, step 1
getCandidates1 ==
  /\ pc = "cand1"
  /\ tick = "free"
  /\ cand' = candidatesOf(indexes, cur.query)
  /\ pc' = "cand2"
  /\ UNCHANGED <<storeVars, execVars, cur, cacheAtLoad, tick, expired, ret, num, pending,
                 markers, nextId, nSub, submitted, copyVars, cursorVars, appendVars, unitVars, nIdx, indexCalls, calls, results,
                 ioFailed>>

\* Cursor._exec after getCandidates: the matching documents go to the callback
execResult(docs) ==
  /\ DeliverValue("ok", found({d \in docs : match(d, cur.query)}))
  /\ UNCHANGED <<storeVars, pending, ret, num, nextId>>

\* an upsert check that inserts whether or not a document matched
upsertCheckAlwaysInserts(docs) ==
  /\ insertDocs(<<toBeInserted(cur.query, cur.upd)>>)
  /\ UNCHANGED <<file, ttlIndexes, ret, num>>

\* _update, first task of the waterfall, after cursor.limit(1)._exec
upsertCheck(docs) ==
  IF \E d \in docs : match(d, cur.query)
    THEN /\ pc' = "cand1"
         /\ tick' = "free"
         /\ ret' = "update"
         /\ UNCHANGED <<storeVars, num, pending, nextId, calls, results>>
    ELSE /\ insertDocs(<<toBeInserted(cur.query, cur.upd)>>)
         /\ UNCHANGED <<file, ttlIndexes, ret, num>>

\* a selection that takes every match whatever multi says
firstOrAllIgnoringMulti(matching, multi) == matching

\* the documents a task touches: every match with multi, else the first match
firstOrAll(matching, multi) ==
  IF multi \/ Len(matching) = 0 THEN matching ELSE <<matching[1]>>

selected(docs, query, multi) ==
  Call2(firstOrAll, SelectSeq(SortById(docs), LAMBDA d : match(d, query)), multi)

\* _update, second task of the waterfall, after getCandidates
modificationsOf(old, updateQuery) ==
  [i \in 1 .. Len(old) |-> [oldDoc |-> old[i], newDoc |-> modify(old[i], updateQuery)]]

performUpdate(docs) ==
  \E modifications \in
       {Call2(modificationsOf, selected(docs, cur.query, cur.multi), cur.upd)} :
    \E r \in {updateIndexes(indexes, modifications)} :
      /\ indexes' = r.ixs
      /\ num' = Len(modifications)
      /\ IF r.err
           THEN Deliver("err") /\ pending' = <<>>
           ELSE persistNewState(
                  [i \in 1 .. Len(modifications) |-> serialize(modifications[i].newDoc)],
                  "append", affected(Len(modifications), FALSE))
      /\ UNCHANGED <<file, ttlIndexes, ret, nextId>>

\* _remove after getCandidates
performRemove(docs) ==
  \E gone \in {selected(docs, cur.query, cur.multi)} :
    /\ indexes' = removeAllFromIndexes(indexes, gone, Len(gone))
    /\ num' = Len(gone)
    /\ persistNewState([i \in 1 .. Len(gone) |-> tombstone(gone[i]["_id"])], "append",
                       affected(Len(gone), FALSE))
    /\ UNCHANGED <<file, ttlIndexes, ret, nextId>>

\* the callback getCandidates was given, called with (null, docs)
candidatesReturn(docs) ==
  \/ ret = "exec" /\ execResult(docs)
  \/ ret = "upsert" /\ upsertCheck(docs)
  \/ ret = "update" /\ performUpdate(docs)
  \/ ret = "remove" /\ performRemove(docs)

\* getCandidates, step 2
getCandidates2 ==
  /\ pc = "cand2"
  /\ tick = "free"
  /\ IF ret = "remove"
       THEN /\ candidatesReturn(cand)
            /\ UNCHANGED <<cand, expired>>
       ELSE \E validDocs \in {{d \in cand : ~stale(d, ttlIndexes)}} :
              \E expiredDocs \in {SortById(cand \ validDocs)} :
                /\ cand' = validDocs
                /\ expired' = [ids |-> [i \in 1 .. Len(expiredDocs) |-> expiredDocs[i]["_id"]],
                               at |-> 1]
                /\ IF Len(expiredDocs) = 0
                     THEN candidatesReturn(validDocs)
                     ELSE /\ pc' = "ttl"
                          /\ tick' = "free"
                          /\ UNCHANGED <<storeVars, ret, num, pending, nextId, calls, results>>
  /\ UNCHANGED <<execVars, cur, cacheAtLoad, markers, nSub, submitted, copyVars, cursorVars, appendVars, unitVars, nIdx, indexCalls, ioFailed>>

\* this._remove({ _id: _id }, {}, ...) of the eachSeries over expiredDocsIds
removeExpired ==
  /\ pc = "ttl"
  /\ tick = "free"
  /\ \E gone \in {selected(candidatesOf(indexes, queryOn("_id", expired.ids[expired.at])),
                               queryOn("_id", expired.ids[expired.at]), FALSE)} :
       /\ indexes' = removeAllFromIndexes(indexes, gone, Len(gone))
       /\ pending' = [i \in 1 .. Len(gone) |-> tombstone(gone[i]["_id"])]
  /\ pc' = "ttlappend"
  /\ UNCHANGED <<file, ttlIndexes, execVars, cur, cacheAtLoad, tick, cand, expired, ret,
                 num, markers, nextId, nSub, submitted, copyVars, cursorVars, appendVars, unitVars, nIdx, indexCalls, calls, results,
                 ioFailed>>

\* a callback of that append that drops the error: neither the callback of
\* getCandidates nor the cb of eachSeries is called
removeExpiredDoneDropsError ==
  /\ pc = "ttlappend"
  /\ tick = "free"
  /\ \E err \in {e \in BOOLEAN : e => Len(pending) > 0} :
       IF err
         THEN /\ pc' = "lost"
              /\ tick' = "free"
              /\ ioFailed' = TRUE
              /\ UNCHANGED <<file, expired, calls, results>>
         ELSE /\ file' = appendFile(file, pending)
              /\ ioFailed' = ioFailed
              /\ expired' = [expired EXCEPT !.at = @ + 1]
              /\ pc' = IF expired.at < Len(expired.ids) THEN "ttl" ELSE "ttlret"
              /\ tick' = IF expired.at < Len(expired.ids) THEN "free" ELSE "busy"
              /\ calls' = calls /\ results' = results
  /\ pending' = <<>>
  /\ UNCHANGED <<indexes, ttlIndexes, execVars, cur, cacheAtLoad, cand, ret, num, markers,
                 nextId, nSub, submitted, copyVars, cursorVars, appendVars, unitVars, nIdx, indexCalls>>

\* the callback of the append of an expired document's tombstone: an error goes
\* to the callback of getCandidates, else eachSeries moves on
removeExpiredDone ==
  /\ pc = "ttlappend"
  /\ tick = "free"
  /\ \E err \in {e \in BOOLEAN : e => Len(pending) > 0} :
       IF err
         THEN /\ Deliver("err")
              /\ ioFailed' = TRUE
              /\ UNCHANGED <<file, expired>>
         ELSE /\ file' = appendFile(file, pending)
              /\ ioFailed' = ioFailed
              /\ expired' = [expired EXCEPT !.at = @ + 1]
              /\ pc' = IF expired.at < Len(expired.ids) THEN "ttl" ELSE "ttlret"
              /\ tick' = IF expired.at < Len(expired.ids) THEN "free" ELSE "busy"
              /\ calls' = calls /\ results' = results
  /\ pending' = <<>>
  /\ UNCHANGED <<indexes, ttlIndexes, execVars, cur, cacheAtLoad, cand, ret, num, markers,
                 nextId, nSub, submitted, copyVars, cursorVars, appendVars, unitVars, nIdx, indexCalls>>

\* the final callback of eachSeries: callback(null, validDocs)
getCandidatesReturn ==
  /\ pc = "ttlret"
  /\ candidatesReturn(cand)
  /\ UNCHANGED <<execVars, cur, cacheAtLoad, cand, expired, markers, nSub, submitted, copyVars, cursorVars, appendVars, unitVars, nIdx, indexCalls,
                 ioFailed>>

(***************************************************************************)
(* Persistence.persistCachedDatabase and Persistence.loadDatabase.         *)
(***************************************************************************)
\* persistCachedDatabase as a task (compactDatafile): the rewrite is in flight
Begin_compact ==
  /\ pc = "begin"
  /\ cur.op = "compact"
  /\ pending' = cachedDatabaseLines(indexes)
  /\ pc' = "rewrite"
  /\ tick' = "free"
  /\ UNCHANGED <<storeVars, execVars, cur, cacheAtLoad, cand, expired, ret, num, markers,
                 nextId, nSub, submitted, copyVars, cursorVars, appendVars, unitVars, nIdx, indexCalls, calls, results, ioFailed>>

\* the callback of storage.crashSafeWriteFile
RewriteDone ==
  /\ pc = "rewrite"
  /\ tick = "free"
  /\ \E err \in BOOLEAN :
       /\ file' = IF err THEN file ELSE writeFile(file, pending)
       /\ ioFailed' = (ioFailed \/ err)
       /\ Deliver(IF err THEN "err" ELSE "ok")
  /\ pending' = <<>>
  /\ UNCHANGED <<indexes, ttlIndexes, execVars, cur, cacheAtLoad, cand, expired, ret, num,
                 markers, nextId, nSub, submitted, copyVars, cursorVars, appendVars, unitVars, nIdx, indexCalls>>

\* loadDatabase: resetIndexes(), then the datafile is read
Begin_load ==
  /\ pc = "begin"
  /\ cur.op = "load"
  /\ indexes' = resetIndexes(indexes, FALSE, <<>>).ixs
  /\ cacheAtLoad' = getAllData(indexes)
  /\ pc' = "read"
  /\ tick' = "free"
  /\ UNCHANGED <<file, ttlIndexes, execVars, cur, cand, expired, ret, num,
                 pending, markers, nextId, nSub, submitted, copyVars, cursorVars, appendVars, unitVars, nIdx, indexCalls, calls,
                 results, ioFailed>>

\* what the callback of storage.readFile makes of the datafile: treatRawData,
\* the indexes are recreated and filled; a failure to fill them resets them all
fillIndexes(filled) ==
  IF filled.err
    THEN [err |-> TRUE, ixs |-> resetIndexes(filled.ixs, FALSE, <<>>).ixs]
    ELSE [err |-> FALSE, ixs |-> filled.ixs]

treatedDataLoaded(ixs, treatedData, err) ==
  IF err \/ treatedData.err THEN [err |-> TRUE, ixs |-> ixs]
  ELSE Call1(fillIndexes,
             resetIndexes(recreateIndexes(ixs, treatedData.indexes, 1),
                          TRUE, treatedData.data))

readFileCallback(ixs, rawData, err) ==
  Call3(treatedDataLoaded, ixs, treatRawData(rawData), err)

\* the callback of storage.readFile; on success persistCachedDatabase rewrites
\* the datafile
ReadDone ==
  /\ pc = "read"
  /\ tick = "free"
  /\ \E err \in BOOLEAN :
       \E r \in {readFileCallback(indexes, file, err)} :
         /\ ioFailed' = (ioFailed \/ err)
         /\ indexes' = r.ixs
         /\ IF r.err
              THEN /\ Deliver("err")
                   /\ pending' = pending
              ELSE /\ pending' = cachedDatabaseLines(indexes')
                   /\ pc' = "loadrewrite"
                   /\ tick' = "free"
                   /\ calls' = calls /\ results' = results
  /\ UNCHANGED <<file, ttlIndexes, execVars, cur, cacheAtLoad, cand, expired, ret, num,
                 markers, nextId, nSub, submitted, copyVars, cursorVars, appendVars, unitVars, nIdx, indexCalls>>

\* a processBuffer that queues the buffered tasks and keeps them in the buffer
processBufferKeepsBuffer ==
  /\ ready' = TRUE
  /\ queue' = queue \o buffer
  /\ buffer' = buffer

\* Executor.processBuffer()
processBuffer ==
  /\ ready' = TRUE
  /\ queue' = queue \o buffer
  /\ buffer' = <<>>

\* the callback of the rewrite of loadDatabase: processBuffer on success
LoadRewriteDone ==
  /\ pc = "loadrewrite"
  /\ tick = "free"
  /\ \E err \in BOOLEAN :
       IF err
         THEN /\ Deliver("err")
              /\ ioFailed' = TRUE
              /\ UNCHANGED <<file, ready, buffer, queue>>
         ELSE /\ file' = writeFile(file, pending)
              /\ ioFailed' = ioFailed
              /\ processBuffer
              /\ Deliver("ok")
  /\ pending' = <<>>
  /\ UNCHANGED <<indexes, ttlIndexes, workers, active, started, cur, cacheAtLoad, cand,
                 expired, ret, num, markers, nextId, nSub, submitted, copyVars, cursorVars, appendVars, unitVars, nIdx, indexCalls>>

(***************************************************************************)
(* Datastore.ensureIndex and Datastore.removeIndex: synchronous public     *)
(* calls; the append of their marker is in flight afterwards.              *)
(***************************************************************************)
\* a call of ensureIndex / removeIndex and what it did before returning: it
\* called back with an error ("err"), with null ("ok"), or started the append
\* of its marker, whose callback calls back ("append")
indexCall(op, options, did) == [op |-> op, options |-> options, did |-> did]

IndexOptions ==
  {indexOptions("x", TRUE, FALSE, NoTTL), indexOptions("x", TRUE, TRUE, NoTTL),
   indexOptions("x", FALSE, FALSE, TTLSeconds), indexOptions("x", TRUE, FALSE, TTLSeconds)}

ensureIndex ==
  /\ tick = "free"
  /\ nSub + nIdx < MaxCalls
  /\ nIdx' = nIdx + 1
  /\ \E options \in IndexOptions :
       IF options.fieldName \in indexNames(indexes)
         THEN /\ indexCalls' = Append(indexCalls, indexCall("ensureIndex", options, "ok"))
              /\ UNCHANGED <<indexes, ttlIndexes, markers>>
         ELSE LET r == IF "_id" \in indexNames(indexes)
                         THEN insertMultipleDocs(
                                newIndex(options.fieldName, options.unique, options.sparse),
                                SortById(getAllData(indexes)))
                         \* this.getAllData() throws inside the try block
                         ELSE [err |-> TRUE,
                               ix |-> newIndex(options.fieldName, options.unique,
                                               options.sparse)]
              IN /\ ttlIndexes' =
                      IF options.expireAfterSeconds # NoTTL
                        THEN [f \in DOMAIN ttlIndexes \cup {options.fieldName} |->
                                IF f = options.fieldName THEN options.expireAfterSeconds
                                ELSE ttlIndexes[f]]
                        ELSE ttlIndexes
                 /\ IF r.err
                      THEN /\ indexCalls' =
                                Append(indexCalls, indexCall("ensureIndex", options, "err"))
                           /\ UNCHANGED <<indexes, markers>>
                      ELSE /\ indexes' = Append(indexes, r.ix)
                           /\ markers' = Append(markers, indexCreated(options))
                           /\ indexCalls' =
                                Append(indexCalls, indexCall("ensureIndex", options, "append"))
  /\ UNCHANGED <<file, execVars, taskVars, nextId, nSub, submitted, copyVars, cursorVars, appendVars, unitVars, calls,
                 results, ioFailed>>

\* Datastore.removeIndex(fieldName, callback)
removeIndexOf(fieldName) ==
  /\ tick = "free"
  /\ nSub + nIdx < MaxCalls
  /\ nIdx' = nIdx + 1
  /\ indexes' = SelectSeq(indexes, LAMBDA ix : ix.fieldName # fieldName)
  /\ markers' = Append(markers, indexRemoved(fieldName))
  /\ indexCalls' = Append(indexCalls,
                          indexCall("removeIndex", [fieldName |-> fieldName], "append"))
  /\ UNCHANGED <<file, ttlIndexes, execVars, taskVars, nextId, nSub,
                 submitted, copyVars, cursorVars, appendVars, unitVars, calls, results, ioFailed>>

\* removeIndex on the secondary index
removeIndex == removeIndexOf("x")


\* the callback of the append of a marker
MarkerAppendDone ==
  /\ tick = "free"
  /\ \E i \in 1 .. Len(markers), err \in BOOLEAN :
       /\ file' = IF err THEN file ELSE appendFile(file, <<markers[i]>>)
       /\ ioFailed' = (ioFailed \/ err)
       /\ markers' = [j \in 1 .. Len(markers) - 1 |->
                        IF j < i THEN markers[j] ELSE markers[j + 1]]
  /\ UNCHANGED <<indexes, ttlIndexes, execVars, taskVars, nextId, nSub,
                 submitted, copyVars, cursorVars, appendVars, unitVars, nIdx, indexCalls, calls, results>>

Next ==
  \/ insert
  \/ exec
  \/ update
  \/ remove
  \/ compactDatafile
  \/ loadDatabase
  \/ ensureIndex
  \/ removeIndex
  \/ MarkerAppendDone
  \/ Process
  \/ Complete
  \/ Begin_insert
  \/ AppendDone
  \/ Begin_candidates
  \/ getCandidates1
  \/ getCandidates2
  \/ removeExpired
  \/ removeExpiredDone
  \/ getCandidatesReturn
  \/ Begin_compact
  \/ RewriteDone
  \/ Begin_load
  \/ ReadDone
  \/ LoadRewriteDone

Spec == Init /\ [][Next]_vars

(***************************************************************************)
(* The steps the event loop owes a task: the queue's scheduling, the task's *)
(* own continuations and the callbacks of its storage calls.  The event    *)
(* loop runs every callback that is due, and every storage call eventually *)
(* calls back.                                                             *)
(***************************************************************************)
TaskStep ==
  \/ Process
  \/ Complete
  \/ Begin_insert
  \/ AppendDone
  \/ Begin_candidates
  \/ getCandidates1
  \/ getCandidates2
  \/ removeExpired
  \/ removeExpiredDone
  \/ getCandidatesReturn
  \/ Begin_compact
  \/ RewriteDone
  \/ Begin_load
  \/ ReadDone
  \/ LoadRewriteDone

LiveSpec == Init /\ [][Next]_vars /\ WF_vars(TaskStep)

(***************************************************************************)
(* Vocabulary of the properties.                                           *)
(***************************************************************************)
Started(n) == \E i \in 1 .. Len(started) : started[i] = n
InQueue(n) == \E i \in 1 .. Len(queue) : queue[i].n = n
Completed(n) == Started(n) /\ n \notin active
opOf(n) == submitted[n].op

\* a fresh Datastore on the datafile f, after its loadDatabase
loadFresh(f) == readFileCallback(<<newIndex("_id", TRUE, FALSE)>>, f, FALSE)

\* the entries an index has when it holds exactly the documents docs
entriesOf(ix, docs) ==
  {<<getDotValue(d, ix.fieldName), d>> :
     d \in {e \in docs : ~(getDotValue(e, ix.fieldName) = Undef /\ ix.sparse)}}

(***************************************************************************)
(* C1: at most one task of the executor is executing at any time: the      *)
(* tasks whose worker was called and has not signalled completion are at   *)
(* most one, the running task, and the queue counts that one worker.       *)
(***************************************************************************)
C1_OneTaskAtATime ==
  /\ Cardinality(active) <= 1
  /\ workers = Cardinality(active)
  /\ active # {} => active = {cur.n}

\* a task is suspended at its append while another one waits in the queue
C1_Witness == active # {} /\ pc = "append" /\ queue # <<>>

RECURSIVE foldLog(_, _, _)
\* the log replayed in file order and folded by _id: a tombstone deletes, a
\* later document overwrites an earlier one
foldLog(log, i, docs) ==
  IF i > Len(log) THEN docs
  ELSE Call3(foldLog, log, i + 1,
             IF "_id" \notin DOMAIN log[i] THEN docs
             ELSE IF "$$deleted" \in DOMAIN log[i]
               THEN {d \in docs : d["_id"] # log[i]["_id"]}
               ELSE {d \in docs : d["_id"] # log[i]["_id"]} \cup {deserialize(log[i])})

\* two stores with the same documents and the same secondary indexes
sameStore(a, b) ==
  /\ getAllData(a) = getAllData(b)
  /\ indexNames(a) = indexNames(b)
  /\ \A f \in indexNames(a) : a[indexOf(a, f)] = b[indexOf(b, f)]

\* no task runs or waits, no marker is being appended, no storage call failed
Quiescent ==
  ready /\ active = {} /\ queue = <<>> /\ markers = <<>> /\ ~ioFailed

(***************************************************************************)
(* C5: the indexes (and with them the cached documents) are changed by the *)
(* running task only: no ensureIndex or removeIndex call changes them      *)
(* while a task is running or suspended at I/O.                            *)
(***************************************************************************)
C5_OnlyTheRunningTaskChangesIndexes ==
  [][(indexes' # indexes /\ nIdx' # nIdx) => active = {}]_vars

(***************************************************************************)
(* C7: on a loaded store with no task running, the log replayed in file    *)
(* order and folded by _id is the set of the in-memory documents, failed   *)
(* log writes included.                                                    *)
(***************************************************************************)
C7_LogReplayIsMemory ==
  (ready /\ active = {}) => foldLog(file, 1, {}) = getAllData(indexes)

(***************************************************************************)
(* C8: persist then reload is a round trip: whenever the store is at rest  *)
(* and no storage call has failed, a fresh store loaded from the datafile  *)
(* has the documents and the secondary indexes of the store.  Stated on    *)
(* the runs that call neither ensureIndex nor removeIndex, whatever _id    *)
(* the inserted documents have.                                            *)
(***************************************************************************)
C8_ReloadRoundTrip ==
  (Quiescent /\ nIdx = 0)
    => (~loadFresh(file).err /\ sameStore(loadFresh(file).ixs, indexes))

(***************************************************************************)
(* C9: compaction is idempotent: once a compaction has rewritten the       *)
(* datafile, a reload followed by another compaction writes the same       *)
(* content.  Stated on the runs that call neither ensureIndex nor          *)
(* removeIndex and in which no storage call has failed.                    *)
(***************************************************************************)
C9_CompactionIdempotent ==
  (pc = "signalled" /\ cur.op = "compact" /\ nIdx = 0 /\ ~ioFailed)
    => cachedDatabaseLines(loadFresh(file).ixs) = file

(***************************************************************************)
(* C10: after a successful persistCachedDatabase (of a compaction or of a  *)
(* load) the datafile is exactly one line per in-memory document and one   *)
(* creation marker per index other than _id.  Stated on the step in which  *)
(* the rewrite calls back with success, no marker being appended and no    *)
(* storage call having failed.                                             *)
(***************************************************************************)
C10_CompactedFileIsLiveState ==
  [][(pc \in {"rewrite", "loadrewrite"} /\ pc' = "signalled" /\ markers = <<>>
        /\ ~ioFailed')
       => file' = cachedDatabaseLines(indexes')]_vars

C12_LoadLeavesCompactedLog ==
  [][(pc = "loadrewrite" /\ pc' = "signalled" /\ calls'[cur.n] = <<"ok">>
        /\ markers = <<>>)
       => /\ \A i \in 1 .. Len(buffer) : ~Started(buffer[i].n)
          /\ ready'
          /\ file' = cachedDatabaseLines(indexes')]_vars

(***************************************************************************)
(* Vocabulary of the claims about corrupt lines.                           *)
(***************************************************************************)
\* the lines of the log that fail to deserialize
corruptLines(log) == SelectSeq(log, LAMBDA l : "$$garbage" \in DOMAIN l)

\* corrupt lines / total lines exceeds corruptAlertThreshold (0.1)
ratioExceeds(log) == Len(log) > 0 /\ 10 * Len(corruptLines(log)) > Len(log)

(***************************************************************************)
(* C13: loadDatabase fails if and only if the number of lines that fail to *)
(* deserialize divided by the number of lines of the log exceeds 0.1, and  *)
(* a load that goes on has dropped exactly the corrupt lines.  Stated on   *)
(* the step in which readFile calls back, no storage call having failed:   *)
(* with the ratio above 0.1 the load fails, and a load that goes on to its *)
(* rewrite had a ratio at or below 0.1 and holds the fold of the log.  (A  *)
(* load that fails while rebuilding an index is left aside.)               *)
(***************************************************************************)
C13_FailsIffCorruptionAboveThreshold ==
  [][(pc = "read" /\ pc' # "read" /\ ~ioFailed')
       => /\ ratioExceeds(file) => pc' = "signalled"
          /\ (pc' = "loadrewrite")
               => /\ ~ratioExceeds(file)
                  /\ getAllData(indexes') = foldLog(file, 1, {})]_vars

(***************************************************************************)
(* C14: after a loadDatabase that fails the store stays unusable until a   *)
(* later loadDatabase succeeds, whether or not it had loaded before: every *)
(* insert, find, update, remove or compaction that has started was         *)
(* preceded by a load, and the last load that ran before it reported       *)
(* success.                                                                *)
(***************************************************************************)
C14_UnusableAfterFailedLoad ==
  \A i \in 1 .. Len(started) :
    opOf(started[i]) # "load"
      => \E k \in 1 .. i - 1 :
           /\ opOf(started[k]) = "load"
           /\ calls[started[k]] = <<"ok">>
           /\ \A j \in k + 1 .. i - 1 : opOf(started[j]) # "load"

(***************************************************************************)
(* Vocabulary of the claims about constraint violations.                   *)
(***************************************************************************)
\* a document of docs has, on the field of a unique index, the value of a
\* document the store holds
collides(ixs, docs) ==
  \E i \in 1 .. Len(ixs), k \in 1 .. Len(docs), e \in getAllData(ixs) :
    /\ ixs[i].unique
    /\ getDotValue(docs[k], ixs[i].fieldName) # Undef
    /\ getDotValue(docs[k], ixs[i].fieldName) = getDotValue(e, ixs[i].fieldName)

(***************************************************************************)
(* C15: an insert of a document whose value on a unique-indexed field is   *)
(* that of a document already in the store fails with an error, and leaves *)
(* the documents, every index and the log exactly as they were: the step   *)
(* of _insert reports the error, changes neither the indexes nor the       *)
(* datafile, and leaves nothing to append.                                 *)
(***************************************************************************)
C15_UniqueViolationLeavesStoreUnchanged ==
  [][(pc = "begin" /\ cur.op = "insert" /\ collides(indexes, cur.docs))
       => /\ pc' = "signalled"
          /\ cur.hasCb => calls'[cur.n] = <<"err">>
          /\ indexes' = indexes
          /\ file' = file
          /\ pending' = <<>>]_vars

\* an insert of one document without _id has just failed on the unique index
\* on x, which holds the document it collided with
C15_Witness ==
  /\ pc = "signalled"
  /\ cur.op = "insert"
  /\ calls[cur.n] = <<"err">>
  /\ Len(cur.docs) = 1
  /\ cur.docs[1]["_id"] = Undef
  /\ collides(indexes, cur.docs)
  /\ ~ioFailed

(***************************************************************************)
(* C16: an insert of an array of documents is all-or-nothing across the    *)
(* documents and the indexes: the step of _insert either fails, reports    *)
(* the error, leaves every index as it was (no document of the batch is in *)
(* any index) and appends nothing, or adds every document of the batch to  *)
(* the store and hands one line per document to the log.                   *)
(***************************************************************************)
C16_BatchInsertAllOrNothing ==
  [][(pc = "begin" /\ cur.op = "insert" /\ Len(cur.docs) > 1)
       => \/ /\ pc' = "signalled"
             /\ cur.hasCb => calls'[cur.n] = <<"err">>
             /\ indexes' = indexes
             /\ \A i \in 1 .. Len(indexes') : \A e \in indexes'[i].tree :
                  e[2]["_id"] \in nextId .. nextId' - 1 => e[2] \in getAllData(indexes)
             /\ file' = file
             /\ pending' = <<>>
          \/ /\ pc' = "append"
             /\ Len(pending') = Len(cur.docs)
             /\ getAllData(indexes') =
                  getAllData(indexes) \cup {deserialize(pending'[k]) : k \in 1 .. Len(pending')}
             /\ Cardinality(getAllData(indexes')) =
                  Cardinality(getAllData(indexes)) + Len(cur.docs)]_vars

\* an insert of two documents has just failed on its second document, after
\* its first document had been added to the _id index and to the unique
\* index on x
C16_Witness ==
  /\ pc = "signalled"
  /\ cur.op = "insert"
  /\ calls[cur.n] = <<"err">>
  /\ Len(cur.docs) = 2
  /\ cur.docs[1]["x"] = Undef
  /\ cur.docs[2]["x"] = 1
  /\ \E i \in 1 .. Len(indexes) :
       /\ indexes[i].fieldName = "x"
       /\ indexes[i].unique
       /\ \E e \in indexes[i].tree : e[1] = 1
       /\ \A e \in indexes[i].tree : e[1] # Undef
  /\ getAllData(indexes) # {}
  /\ ~ioFailed

\* no unique index holds two documents under one key
uniqueKept(ixs) ==
  \A i \in 1 .. Len(ixs) :
    ixs[i].unique => \A e, o \in ixs[i].tree : e[1] = o[1] => e = o

\* the running _update is at the step that modifies the matched documents
AtUpdateStep == ret = "update" /\ pc \in {"cand2", "ttlret"}

(***************************************************************************)
(* C17: an update is all-or-nothing across the matched documents and the   *)
(* indexes: the step of _update that changes the indexes either fails,     *)
(* reports the error, leaves every index holding exactly the old documents *)
(* and appends nothing, or replaces every selected document by its         *)
(* modified version in every index, no unique index holding a key twice,   *)
(* and hands one line per replaced document to the log.                    *)
(***************************************************************************)
C17_UpdateAllOrNothing ==
  [][(AtUpdateStep /\ pc' \in {"signalled", "append"})
       => \/ /\ pc' = "signalled"
             /\ calls'[cur.n] = <<"err">>
             /\ indexes' = indexes
             /\ file' = file
             /\ pending' = <<>>
          \/ /\ pc' = "signalled"
             /\ calls'[cur.n] = <<"ok">>
             /\ indexes' = indexes
             /\ file' = file
             /\ pending' = <<>>
             /\ \A d \in cand : ~match(d, cur.query)
          \/ /\ pc' = "append"
             /\ uniqueKept(indexes')
             /\ LET new == {deserialize(pending'[k]) : k \in 1 .. Len(pending')}
                    ids == {d["_id"] : d \in new}
                IN /\ Cardinality(new) = Len(pending')
                   /\ getAllData(indexes') =
                        {d \in getAllData(indexes) : d["_id"] \notin ids} \cup new
                   /\ \A i \in 1 .. Len(indexes') :
                        indexes'[i].tree = entriesOf(indexes'[i], getAllData(indexes'))]_vars

\* an update of every document has just failed on the unique index on x, after
\* the _id index had taken the modified documents
C17_Witness ==
  /\ pc = "signalled"
  /\ cur.op = "update"
  /\ cur.multi
  /\ cur.query = EmptyQuery
  /\ calls[cur.n] = <<"err">>
  /\ ~ioFailed
  /\ Cardinality(getAllData(indexes)) > 1
  /\ \E i \in 1 .. Len(indexes) : indexes[i].fieldName = "x" /\ indexes[i].unique

(***************************************************************************)
(* Vocabulary of the claims about what update and remove affect.           *)
(***************************************************************************)
\* the stored documents the running task's query matches and no TTL index
\* makes stale
matchingDocs ==
  {d \in getAllData(indexes) : match(d, cur.query) /\ ~stale(d, ttlIndexes)}

\* the _id values of the lines handed to the log
idsOf(lines) == {lines[k]["_id"] : k \in 1 .. Len(lines)}

(***************************************************************************)
(* C18: an update without multi modifies at most one document even when    *)
(* several match, and with multi every matching non-stale document; the    *)
(* count it reports is the number of documents replaced in the indexes and *)
(* the number of document lines appended to the log.  Stated on the step   *)
(* of _update that changes the indexes and on the step in which its append *)
(* calls back.                                                             *)
(***************************************************************************)
C18_UpdateCountAndMulti ==
  [][/\ (AtUpdateStep /\ pc' = "append")
          => /\ num' = Len(pending')
             /\ Cardinality(idsOf(pending')) = Len(pending')
             /\ idsOf(pending') \subseteq {d["_id"] : d \in matchingDocs}
             /\ cur.multi => idsOf(pending') = {d["_id"] : d \in matchingDocs}
             /\ ~cur.multi => Len(pending') = 1
             /\ \A d \in getAllData(indexes) :
                  IF d["_id"] \in idsOf(pending')
                    THEN /\ modify(d, cur.upd) \in getAllData(indexes')
                         /\ \E k \in 1 .. Len(pending') :
                              pending'[k] = serialize(modify(d, cur.upd))
                    ELSE d \in getAllData(indexes')
             /\ Cardinality(getAllData(indexes')) = Cardinality(getAllData(indexes))
     /\ (AtUpdateStep /\ pc' = "signalled" /\ calls'[cur.n] = <<"ok">>)
          => /\ matchingDocs = {}
             /\ results'[cur.n] = <<affected(0, FALSE)>>
             /\ indexes' = indexes
             /\ file' = file
     /\ (pc = "append" /\ cur.op = "update" /\ ret = "update"
           /\ pc' = "signalled" /\ calls'[cur.n] = <<"ok">>)
          => /\ results'[cur.n] = <<affected(Len(pending), FALSE)>>
             /\ num = Len(pending)
             /\ file' = file \o pending]_vars

\* an update without multi whose query matches two stored documents has
\* completed and reported one affected document
C18_Witness ==
  /\ pc = "signalled"
  /\ cur.op = "update"
  /\ ~cur.multi
  /\ results[cur.n] = <<affected(1, FALSE)>>
  /\ Cardinality({d \in getAllData(indexes) : d["x"] = cur.upd.x}) = 1
  /\ Cardinality(getAllData(indexes)) > 1
  /\ cur.query = EmptyQuery

\* the running _update is at the step that decides whether to insert
AtUpsertStep == ret = "upsert" /\ pc \in {"cand2", "ttlret"}

(***************************************************************************)
(* C19: an update with upsert whose query matches no document inserts      *)
(* exactly one new document, modifies no existing one and reports one      *)
(* affected document with the upsert flag; when the query matches a        *)
(* document it inserts nothing and reports no upsert.  Stated on the step  *)
(* of _update that decides whether to insert (an insertion that violates a *)
(* constraint reports the error and changes nothing) and on the step in    *)
(* which the append calls back with success.                               *)
(***************************************************************************)
C19_UpsertInsertsExactlyOne ==
  [][/\ (AtUpsertStep /\ pc' # "ttl" /\ pc' # pc /\ matchingDocs = {})
          => \/ /\ pc' = "append"
                /\ Len(pending') = 1
                /\ deserialize(pending'[1]) \notin getAllData(indexes)
                /\ \A d \in getAllData(indexes) : d["_id"] # pending'[1]["_id"]
                /\ getAllData(indexes') =
                     getAllData(indexes) \cup {deserialize(pending'[1])}
                /\ deserialize(pending'[1])["x"] = cur.upd.x
                /\ ret' = "upsert"
             \/ /\ pc' = "signalled"
                /\ calls'[cur.n] = <<"err">>
                /\ indexes' = indexes
                /\ file' = file
                /\ pending' = <<>>
     /\ (AtUpsertStep /\ pc' # "ttl" /\ pc' # pc /\ matchingDocs # {})
          => /\ pc' = "cand1"
             /\ ret' = "update"
             /\ indexes' = indexes
             /\ file' = file
             /\ pending' = pending
     /\ (pc = "append" /\ cur.op = "update" /\ pc' = "signalled"
           /\ calls'[cur.n] = <<"ok">>)
          => /\ file' = file \o pending
             /\ indexes' = indexes
             /\ IF ret = "upsert"
                  THEN results'[cur.n] = <<affected(1, TRUE)>> /\ Len(pending) = 1
                  ELSE ~results'[cur.n][1].upsert]_vars

\* an update with upsert has inserted its document beside the stored ones and
\* reported one affected document with the upsert flag
C19_Witness ==
  /\ pc = "signalled"
  /\ cur.op = "update"
  /\ cur.upsert
  /\ results[cur.n] = <<affected(1, TRUE)>>
  /\ Cardinality(getAllData(indexes)) > 1
  /\ \E n \in 1 .. nSub :
       /\ opOf(n) = "update"
       /\ Completed(n)
       /\ calls[n] = <<"ok">>
       /\ ~results[n][1].upsert

\* the stored documents the running task's query matches, stale or not
matchingStored == {d \in getAllData(indexes) : match(d, cur.query)}

(***************************************************************************)
(* C20: a remove deletes at most one matching document without multi and   *)
(* every matching document with multi; the count it reports is the number  *)
(* of documents removed from every index and the number of tombstones      *)
(* appended to the log; and it never triggers TTL expiry, so that no other *)
(* document is removed.  Stated on the step of _remove that follows its    *)
(* candidates and on the step in which its append calls back.              *)
(***************************************************************************)
C20_RemoveCountAndNoExpiry ==
  [][/\ (ret = "remove" /\ pc = "cand2" /\ pc' # pc)
          => /\ pc' \in {"append", "signalled"}
             /\ expired' = NoExpired
             /\ num' = Len(pending')
             /\ \A k \in 1 .. Len(pending') : "$$deleted" \in DOMAIN pending'[k]
             /\ Cardinality(idsOf(pending')) = Len(pending')
             /\ idsOf(pending') \subseteq {d["_id"] : d \in matchingStored}
             /\ cur.multi => idsOf(pending') = {d["_id"] : d \in matchingStored}
             /\ ~cur.multi => Len(pending') = IF matchingStored = {} THEN 0 ELSE 1
             /\ getAllData(indexes') =
                  {d \in getAllData(indexes) : d["_id"] \notin idsOf(pending')}
             /\ \A i \in 1 .. Len(indexes') :
                  indexes'[i].tree = entriesOf(indexes'[i], getAllData(indexes'))
             /\ file' = file
             /\ (pc' = "signalled")
                  => (Len(pending') = 0 /\ results'[cur.n] = <<affected(0, FALSE)>>)
     /\ (pc = "append" /\ cur.op = "remove" /\ pc' = "signalled"
           /\ calls'[cur.n] = <<"ok">>)
          => /\ results'[cur.n] = <<affected(Len(pending), FALSE)>>
             /\ num = Len(pending)
             /\ file' = file \o pending
             /\ indexes' = indexes]_vars

\* a remove without multi has completed and reported one removed document
\* while a document that a TTL index makes stale is still in the store
C20_Witness ==
  /\ pc = "signalled"
  /\ cur.op = "remove"
  /\ ~cur.multi
  /\ results[cur.n] = <<affected(1, FALSE)>>
  /\ \E d \in getAllData(indexes) : stale(d, ttlIndexes)

\* every identifier of expiredDocsIds is out of the store and deleted in the log
expiredGone ==
  \A k \in 1 .. Len(expired.ids) :
    /\ \A d \in getAllData(indexes) : d["_id"] # expired.ids[k]
    /\ \E j \in 1 .. Len(file) : file[j] = tombstone(expired.ids[k])

(***************************************************************************)
(* C21: for every TTL-registered field, a document whose date in that      *)
(* field is older than expireAfterSeconds is never among the documents a   *)
(* find reports nor among those an update modifies, and once the operation *)
(* whose candidates contained it has completed the document is gone from   *)
(* the in-memory store and a tombstone for it is in the log.               *)
(***************************************************************************)
C21_StaleNeverSeenAndRemoved ==
  [][/\ (cur.op = "find" /\ pc # "signalled" /\ pc' = "signalled"
           /\ calls'[cur.n] = <<"ok">>)
          => /\ results'[cur.n][1].docs \subseteq getAllData(indexes)
             /\ \A d \in results'[cur.n][1].docs : ~stale(d, ttlIndexes)
     /\ (AtUpdateStep /\ pc' # pc)
          => \A d \in getAllData(indexes) :
               (d["_id"] \in idsOf(pending') => ~stale(d, ttlIndexes))
     /\ (pc = "signalled" /\ pc' # "signalled" /\ cur.op \in {"find", "update"})
          => expiredGone]_vars

\* two stored documents have the same defined value on the field
equalOn(fieldName) ==
  \E a, b \in getAllData(indexes) :
    /\ a # b
    /\ getDotValue(a, fieldName) # Undef
    /\ getDotValue(a, fieldName) = getDotValue(b, fieldName)

\* the step is the call of ensureIndex with a unique constraint
uniqueIndexAsked ==
  /\ nIdx' = nIdx + 1
  /\ indexCalls'[nIdx'].op = "ensureIndex"
  /\ indexCalls'[nIdx'].options.unique

(***************************************************************************)
(* C22: ensureIndex with a unique constraint on a store that holds two     *)
(* documents with equal values on the field fails, and afterwards indexes  *)
(* has the field names and the contents it had before the call and no      *)
(* index-creation marker is on its way to the log.                         *)
(***************************************************************************)
C22_UniqueEnsureIndexFails ==
  [][(uniqueIndexAsked /\ equalOn(indexCalls'[nIdx'].options.fieldName))
       => /\ indexCalls'[nIdx'].did = "err"
          /\ indexes' = indexes
          /\ markers' = markers
          /\ file' = file]_vars

\* the identifiers of the stored documents
idsInUse == {d["_id"] : d \in getAllData(indexes)}

\* a document of the array carries an _id in use, or two carry the same _id
idClash(docs) ==
  \/ \E i \in 1 .. Len(docs) : docs[i]["_id"] # Undef /\ docs[i]["_id"] \in idsInUse
  \/ \E i, j \in 1 .. Len(docs) :
       i < j /\ docs[i]["_id"] # Undef /\ docs[i]["_id"] = docs[j]["_id"]

\* an index other than _id carries a unique constraint
uniqueFieldIndexed ==
  \E i \in 1 .. Len(indexes) : indexes[i].fieldName # "_id" /\ indexes[i].unique

MaxObjects == 6

\* a copy that hands back the object it was given
deepCopyShared(h, a) == [heap |-> h, ref |-> a]

\* model.deepCopy(obj): a new object with the content of the one at a
deepCopy(h, a) == [heap |-> Append(h, h[a]), ref |-> Len(h) + 1]

\* docs.map(doc => model.deepCopy(doc)): [heap, refs]
RECURSIVE deepCopyEach(_, _, _)
deepCopyEach(h, refs, acc) ==
  IF refs = <<>> THEN [heap |-> h, refs |-> acc]
  ELSE LET c == deepCopy(h, Head(refs))
       IN Call3(deepCopyEach, c.heap, Tail(refs), Append(acc, c.ref))

\* the addresses of a set as an array, in the order of the stored _ids
RECURSIVE refsInOrder(_)
refsInOrder(S) ==
  IF S = {} THEN <<>>
  ELSE LET first(a) == <<a>> \o Call1(refsInOrder, S \ {a})
       IN Call1(first, CHOOSE a \in S : \A b \in S : heap[a]["_id"] <= heap[b]["_id"])

\* the stored objects a query matches
matchingRefs(query) == {a \in storeRefs : match(heap[a], query)}

CopyInputs == {mkDoc(id, x) : id \in {1, 2}, x \in {1, OldDate}}

\* Datastore._insert(newDoc, callback): the caller's object, the prepared copy
\* the indexes take, and the copy the callback receives
CopyInsert ==
  \E newDoc \in CopyInputs :
    /\ Len(heap) + 3 <= MaxObjects
    /\ matchingRefs(queryOn("_id", newDoc["_id"])) = {}
    /\ \E preparedDoc \in {deepCopy(Append(heap, newDoc), Len(heap) + 1)} :
         \E returned \in {deepCopy(preparedDoc.heap, preparedDoc.ref)} :
           /\ heap' = returned.heap
           /\ storeRefs' = storeRefs \cup {preparedDoc.ref}
           /\ callerRefs' = callerRefs \cup {Len(heap) + 1, returned.ref}
    /\ UNCHANGED <<persistentVars, cursorVars, appendVars, unitVars>>

\* Datastore.find(query, callback) and findOne: the callback receives copies
CopyFind ==
  \E query \in {EmptyQuery, queryOn("_id", 1), queryOn("_id", 2)} :
    /\ matchingRefs(query) # {}
    /\ Len(heap) + Cardinality(matchingRefs(query)) <= MaxObjects
    /\ \E res \in {deepCopyEach(heap, refsInOrder(matchingRefs(query)), <<>>)} :
         /\ heap' = res.heap
         /\ callerRefs' = callerRefs \cup {res.refs[i] : i \in 1 .. Len(res.refs)}
    /\ UNCHANGED <<storeRefs, persistentVars, cursorVars, appendVars, unitVars>>

\* Datastore._update with returnUpdatedDocs and without multi: the indexes
\* take the object model.modify built, the callback receives a copy of it
CopyUpdate ==
  \E query \in {queryOn("_id", 1), queryOn("_id", 2)}, x \in {1, OldDate} :
    /\ matchingRefs(query) # {}
    /\ Len(heap) + 2 <= MaxObjects
    /\ \E candidate \in {refsInOrder(matchingRefs(query))[1]} :
         \E modifiedDoc \in {modify(heap[candidate],
                                    [kind |-> "set", x |-> x])} :
           \E returned \in {deepCopy(Append(heap, modifiedDoc), Len(heap) + 1)} :
             /\ heap' = returned.heap
             /\ storeRefs' = (storeRefs \ {candidate}) \cup {Len(heap) + 1}
             /\ callerRefs' = callerRefs \cup {returned.ref}
    /\ UNCHANGED <<persistentVars, cursorVars, appendVars, unitVars>>

\* the caller writes to a document it holds
CallerMutates ==
  \E a \in callerRefs, x \in XVals :
    /\ heap[a]["x"] # x
    /\ heap' = [heap EXCEPT ![a] = mkDoc(@["_id"], x)]
    /\ UNCHANGED <<storeRefs, callerRefs, persistentVars, cursorVars, appendVars, unitVars>>

CopyInit ==
  /\ file = <<>>
  /\ constructed
  /\ NoObjects
  /\ NoCursor
  /\ NoAppends
  /\ NoUnits

CopyNext ==
  \/ CopyInsert
  \/ CopyFind
  \/ CopyUpdate
  \/ CallerMutates

CopySpec == CopyInit /\ [][CopyNext]_vars

\* the documents a read of the whole store returns
storedDocs == {heap[a] : a \in storeRefs}

(***************************************************************************)
(* C24: a read returns copies structurally equal to the stored documents,  *)
(* the stored document being equal to the one inserted; and a write of the *)
(* caller to its original input, to the document insert returned or to a   *)
(* document a find, findOne or update returned changes no stored document, *)
(* so that later reads return what they returned before.                   *)
(***************************************************************************)
C24_ReadsAreCopies ==
  [][/\ callerRefs' \cap storeRefs' = {}
     \* an insert: the document stored and the one returned equal the input
     /\ (storeRefs' # storeRefs /\ Cardinality(storeRefs') > Cardinality(storeRefs))
          => /\ \A a \in storeRefs' \ storeRefs : heap'[a] = heap'[Len(heap) + 1]
             /\ \A r \in callerRefs' \ callerRefs : heap'[r] = heap'[Len(heap) + 1]
             /\ \A a \in storeRefs : heap'[a] = heap[a]
     \* a find: every document returned equals a stored one
     /\ (storeRefs' = storeRefs /\ Len(heap') > Len(heap))
          => /\ callerRefs' # callerRefs
             /\ \A r \in callerRefs' \ callerRefs : heap'[r] \in storedDocs
             /\ storedDocs' = storedDocs
     \* an update: the document returned equals the one now stored
     /\ (storeRefs' # storeRefs /\ Cardinality(storeRefs') = Cardinality(storeRefs))
          => \A r \in callerRefs' \ callerRefs :
               \E a \in storeRefs' \ storeRefs : heap'[r] = heap'[a]
     \* a write of the caller
     /\ (Len(heap') = Len(heap) /\ heap' # heap)
          => /\ \A a \in storeRefs : heap'[a] = heap[a]
             /\ storedDocs' = storedDocs]_vars

\* the caller has changed its input, the document insert returned and a document
\* a find returned, and the store still holds the document as inserted
C24_Witness ==
  /\ Len(heap) >= 4
  /\ storeRefs = {2}
  /\ {1, 3, 4} \subseteq callerRefs
  /\ heap[2] = mkDoc(1, 1)
  /\ heap[1] = mkDoc(1, Undef)
  /\ heap[3] = mkDoc(1, OldDate)
  /\ heap[4] = mkDoc(1, Undef)

(***************************************************************************)
(* Cursor (cursor.js) over a store in memory.  The documents have the      *)
(* fields _id, f and g; the store has its _id index, whose getAll yields   *)
(* the documents in key order, and may have an index on f, whose nodes     *)
(* keep their documents in the order the index received them.              *)
(***************************************************************************)
MaxDocs == 3

cdoc(id, f, g) == [_id |-> id, f |-> f, g |-> g]
CursorDocs ==
  {cdoc(id, fg[1], fg[2]) : id \in 1 .. MaxDocs, fg \in {<<1, 1>>, <<1, 2>>, <<2, 1>>}}

\* cursor.sort({ f: 1, g: -1 })
SortFG == <<[key |-> "f", direction |-> 1], [key |-> "g", direction |-> 0 - 1]>>

range(seq) == {seq[i] : i \in 1 .. Len(seq)}

\* Index.getMatching(value): tree.search(value), the data of the node of the key
searchNode(docs, fieldName, value) ==
  SelectSeq(docs, LAMBDA d : getDotValue(d, fieldName) = value)

\* getCandidates, step 1: the index on the queried field, else all the data
cursorCandidates(docs, ix, query) ==
  IF "f" \in DOMAIN query /\ ix.on
    THEN searchNode(ix.docs, "f", query["f"])
    ELSE SortById(range(docs))

\* model.compareThings on numbers
compareThings(a, b) == IF a < b THEN 0 - 1 ELSE IF a > b THEN 1 ELSE 0

\* the comparison function handed to res.sort
RECURSIVE compareDocs(_, _, _, _)
compareDocs(a, b, criteria, i) ==
  IF i > Len(criteria) THEN 0
  ELSE LET compare == criteria[i].direction *
                        compareThings(getDotValue(a, criteria[i].key),
                                      getDotValue(b, criteria[i].key))
       IN IF compare # 0 THEN compare ELSE compareDocs(a, b, criteria, i + 1)

\* res.sort(compare): Array.prototype.sort keeps the order of equal elements
RECURSIVE sortDocs(_, _)
sortDocs(res, criteria) ==
  IF res = <<>> THEN <<>>
  ELSE LET sorted == sortDocs(SubSeq(res, 1, Len(res) - 1), criteria)
           d == res[Len(res)]
           k == Cardinality({i \in 1 .. Len(sorted) :
                               compareDocs(sorted[i], d, criteria, 1) <= 0})
       IN SubSeq(sorted, 1, k) \o <<d>> \o SubSeq(sorted, k + 1, Len(sorted))

\* a scan that applies skip and limit whether or not a sort is defined
RECURSIVE scanLimitsBeforeSort(_, _, _, _, _, _, _)
scanLimitsBeforeSort(candidates, query, sort, skip, limit, i, acc) ==
  IF i > Len(candidates) THEN acc.res
  ELSE IF ~match(candidates[i], query)
    THEN scanLimitsBeforeSort(candidates, query, sort, skip, limit, i + 1, acc)
  ELSE IF truthy(skip) /\ skip > acc.skipped
    THEN scanLimitsBeforeSort(candidates, query, sort, skip, limit, i + 1,
                              [acc EXCEPT !.skipped = @ + 1])
  ELSE IF truthy(limit) /\ limit <= acc.added + 1
    THEN Append(acc.res, candidates[i])
  ELSE scanLimitsBeforeSort(candidates, query, sort, skip, limit, i + 1,
                            [acc EXCEPT !.res = Append(@, candidates[i]),
                                        !.added = @ + 1])

\* Cursor._exec, the loop over the candidates: acc is [res, added, skipped]
RECURSIVE scan(_, _, _, _, _, _, _)
scan(candidates, query, sort, skip, limit, i, acc) ==
  IF i > Len(candidates) THEN acc.res
  ELSE IF ~match(candidates[i], query)
    THEN scan(candidates, query, sort, skip, limit, i + 1, acc)
  ELSE IF sort # <<>>
    THEN scan(candidates, query, sort, skip, limit, i + 1,
              [acc EXCEPT !.res = Append(@, candidates[i])])
  ELSE IF truthy(skip) /\ skip > acc.skipped
    THEN scan(candidates, query, sort, skip, limit, i + 1,
              [acc EXCEPT !.skipped = @ + 1])
  ELSE IF truthy(limit) /\ limit <= acc.added + 1
    THEN Append(acc.res, candidates[i])
  ELSE scan(candidates, query, sort, skip, limit, i + 1,
            [acc EXCEPT !.res = Append(@, candidates[i]), !.added = @ + 1])

\* Array.prototype.slice(start, end)
slice(res, start, end) ==
  SubSeq(res, start + 1, IF end < Len(res) THEN end ELSE Len(res))

\* Cursor._exec after getCandidates, with no projection
cursorExec(candidates, query, sort, skip, limit) ==
  LET res == scan(candidates, query, sort, skip, limit, 1,
                  [res |-> <<>>, added |-> 0, skipped |-> 0])
  IN IF sort # <<>>
       THEN LET sorted == sortDocs(res, sort)
                lim == IF truthy(limit) THEN limit ELSE Len(sorted)
                skp == IF truthy(skip) THEN skip ELSE 0
            IN slice(sorted, skp, skp + lim)
       ELSE res

\* an insert into the cursor store: every index receives the document
CursorInsert ==
  \E d \in CursorDocs :
    /\ Len(inserted) < MaxDocs
    /\ \A i \in 1 .. Len(inserted) : inserted[i]["_id"] # d["_id"]
    /\ inserted' = Append(inserted, d)
    /\ fIndex' = IF fIndex.on THEN [fIndex EXCEPT !.docs = Append(@, d)] ELSE fIndex
    /\ UNCHANGED <<cursorRes, persistentVars, copyVars, appendVars, unitVars>>

\* ensureIndex({ fieldName: 'f' }): the new index receives getAllData()
CursorEnsureIndex ==
  /\ ~fIndex.on
  /\ fIndex' = [on |-> TRUE, docs |-> SortById(range(inserted))]
  /\ UNCHANGED <<inserted, cursorRes, persistentVars, copyVars, appendVars, unitVars>>

\* cursor.sort(..).skip(..).limit(..).exec(callback) on find(query)
CursorExec ==
  \E query \in {EmptyQuery, queryOn("f", 1)}, sort \in {<<>>, SortFG},
     skip \in {Undef, 1}, limit \in {Undef, 0, 1} :
    /\ cursorRes' =
         [query |-> query, sort |-> sort, skip |-> skip, limit |-> limit,
          res |-> cursorExec(cursorCandidates(inserted, fIndex, query),
                             query, sort, skip, limit)]
    /\ UNCHANGED <<inserted, fIndex, persistentVars, copyVars, appendVars, unitVars>>

CursorInit ==
  /\ file = <<>>
  /\ constructed
  /\ NoObjects
  /\ NoCursor
  /\ NoAppends
  /\ NoUnits

CursorNext ==
  \/ CursorInsert
  \/ CursorEnsureIndex
  \/ CursorExec

CursorSpec == CursorInit /\ [][CursorNext]_vars

\* the arrays that hold each document of a set once
Perms(S) ==
  {p \in [1 .. Cardinality(S) -> S] :
     \A i, j \in 1 .. Cardinality(S) : p[i] = p[j] => i = j}

\* the states of the index on f of a store that holds the documents of S: none,
\* or built after the first k inserts of one of the insertion orders
indexStates(S) ==
  {NoIndex} \cup
  {[on |-> TRUE,
    docs |-> SortById(range(SubSeq(p, 1, k))) \o SubSeq(p, k + 1, Len(p))] :
     p \in Perms(S), k \in 0 .. Cardinality(S)}

(***************************************************************************)
(* C25: for a fixed set of documents a cursor sorted by f ascending then g *)
(* descending returns the same sequence whatever the order in which the    *)
(* documents were inserted and whichever index supplied the candidates,    *)
(* documents equal on both f and g included.                               *)
(***************************************************************************)
C25_SortedResultIsOrderIndependent ==
  [][(cursorRes' # cursorRes /\ cursorRes'.sort = SortFG)
       => \A ix \in indexStates(range(inserted)) :
            cursorExec(cursorCandidates(inserted, ix, cursorRes'.query),
                       cursorRes'.query, cursorRes'.sort, cursorRes'.skip,
                       cursorRes'.limit) = cursorRes'.res]_vars

\* the documents of the array are in the order of the sort criteria
ordered(L, criteria) ==
  \A i, j \in 1 .. Len(L) : i < j => compareDocs(L[i], L[j], criteria, 1) <= 0

\* the part [s, s + n) of an array, n = Undef standing for no limit
part(L, s, n) ==
  [i \in 1 .. ((IF n = Undef \/ s + n > Len(L) THEN Len(L) ELSE s + n) - s) |-> L[s + i]]

(***************************************************************************)
(* C26: when a cursor has a sort together with a skip s and/or a limit n,  *)
(* its result is the part [s, s + n) of the fully sorted list of all the   *)
(* matching documents: skip and limit are not applied to the candidates in *)
(* their unsorted order and the scan is not cut short before the sort.  A  *)
(* limit of 0 is no limit, as everywhere in the cursor.                    *)
(***************************************************************************)
C26_SkipAndLimitAfterSort ==
  [][(cursorRes' # cursorRes /\ cursorRes'.sort # <<>>)
       => \E L \in Perms({d \in range(inserted) : match(d, cursorRes'.query)}) :
            /\ ordered(L, cursorRes'.sort)
            /\ cursorRes'.res =
                 part(L, IF cursorRes'.skip = Undef THEN 0 ELSE cursorRes'.skip,
                      IF cursorRes'.limit = 0 THEN Undef ELSE cursorRes'.limit)]_vars

\* a sorted cursor with skip 1 and limit 1 over three documents has returned the
\* document that comes first among the candidates and second in the sort
C26_Witness ==
  /\ Len(inserted) = 3
  /\ cursorRes.query = EmptyQuery
  /\ cursorRes.sort = SortFG
  /\ cursorRes.skip = 1
  /\ cursorRes.limit = 1
  /\ cursorRes.res = <<cdoc(1, 1, 1)>>
  /\ cdoc(2, 1, 2) \in range(inserted)

\* the step is the callback of a storage call of the running task that failed,
\* the first storage call to fail
storageCallFails ==
  /\ ~ioFailed
  /\ ioFailed'
  /\ markers' = markers

(***************************************************************************)
(* C27: when a storage append, rewrite or read fails during an insert, an  *)
(* update, a remove, a compaction or a load, the error reaches the         *)
(* callback of that operation and of no other, the task completes so that  *)
(* the executor runs the later tasks, and the log is as it was before the  *)
(* failed write.  Stated for the operations the caller gave a callback and *)
(* for compactDatafile, which takes none.                                  *)
(***************************************************************************)
C27_StorageErrorReachesItsCallback ==
  [][(/\ storageCallFails
      /\ cur.op \in {"insert", "update", "remove", "compact", "load"}
      /\ cur.hasCb \/ cur.op = "compact")
       => /\ calls' = [calls EXCEPT ![cur.n] = Append(@, "err")]
          /\ pc' = "signalled"
          /\ file' = file]_vars

(***************************************************************************)
(* persistNewState (persistence.js) on the storage of src (the browser     *)
(* storage): appendFile reads the item with getItem and, in the callback,  *)
(* writes contents + toAppend with setItem.  The executor has one task     *)
(* call persistNewState at a time; ensureIndex and removeIndex call it     *)
(* themselves, whatever is in flight.                                      *)
(***************************************************************************)
MaxPersist == 3      \* persistNewState calls made on the store

\* the lines of a batch: serialize(doc) + '\n' for each doc, in order
linesOf(newDocs) ==
  [i \in 1 .. Len(newDocs) |->
     IF "_id" \in DOMAIN newDocs[i] THEN serialize(newDocs[i]) ELSE newDocs[i]]

\* the batches a task (insert, update, remove) and an index call hand over
TaskBatches ==
  {<<>>, <<mkDoc(1, 1)>>, <<mkDoc(2, Undef), mkDoc(3, 1)>>, <<tombstone(1)>>}
IndexBatches ==
  {<<indexCreated(indexOptions("x", FALSE, FALSE, NoTTL))>>, <<indexRemoved("x")>>}

\* an appendFile call in flight: at "getItem" until the item was read, then
\* at "setItem" with the contents it read
appendCall(by, toAppend, at, contents) ==
  [by |-> by, toAppend |-> toAppend, at |-> at, contents |-> contents]

without(seq, i) ==
  [j \in 1 .. Len(seq) - 1 |-> IF j < i THEN seq[j] ELSE seq[j + 1]]

\* persistNewState(newDocs, callback)
AppendPersistNewState ==
  /\ persisted + Len(appends) < MaxPersist
  /\ \E by \in {"task", "index"} :
       /\ by = "task" => \A i \in 1 .. Len(appends) : appends[i].by # "task"
       /\ \E newDocs \in (IF by = "task" THEN TaskBatches ELSE IndexBatches) :
            IF inMemoryOnly \/ Len(linesOf(newDocs)) = 0
              THEN /\ persisted' = persisted + 1
                   /\ UNCHANGED <<file, appends>>
              ELSE /\ appends' = Append(appends,
                                        appendCall(by, linesOf(newDocs), "getItem", <<>>))
                   /\ UNCHANGED <<file, persisted>>
  /\ UNCHANGED <<inMemoryOnly, indexes, ttlIndexes, execVars, taskVars, markers, nextId,
                 nSub, nIdx, indexCalls, submitted, calls, results, ioFailed,
                 copyVars, cursorVars, unitVars>>

\* the callback of store.getItem: contents = contents || ''
AppendGetItemDone ==
  /\ \E i \in 1 .. Len(appends) :
       /\ appends[i].at = "getItem"
       /\ appends' = [appends EXCEPT ![i] = appendCall(@.by, @.toAppend, "setItem", file)]
  /\ UNCHANGED <<file, inMemoryOnly, persisted, indexes, ttlIndexes, execVars, taskVars,
                 markers, nextId, nSub, nIdx, indexCalls, submitted, calls, results,
                 ioFailed, copyVars, cursorVars, unitVars>>

\* the callback of store.setItem(filename, contents + toAppend), which calls
\* the callback of persistNewState
AppendSetItemDone ==
  /\ \E i \in 1 .. Len(appends) :
       /\ appends[i].at = "setItem"
       /\ file' = appendFile(appends[i].contents, appends[i].toAppend)
       /\ appends' = without(appends, i)
       /\ persisted' = persisted + 1
  /\ UNCHANGED <<inMemoryOnly, indexes, ttlIndexes, execVars, taskVars, markers, nextId,
                 nSub, nIdx, indexCalls, submitted, calls, results, ioFailed,
                 copyVars, cursorVars, unitVars>>

AppendInit ==
  /\ file \in {<<>>, <<serialize(mkDoc(4, 1))>>}
  /\ constructed
  /\ NoObjects
  /\ NoCursor
  /\ inMemoryOnly \in BOOLEAN
  /\ appends = <<>>
  /\ persisted = 0
  /\ NoUnits

AppendNext ==
  \/ AppendPersistNewState
  \/ AppendGetItemDone
  \/ AppendSetItemDone

AppendSpec == AppendInit /\ [][AppendNext]_vars

\* contents starts with the lines of prefix, unchanged
startsWith(contents, prefix) ==
  /\ Len(prefix) <= Len(contents)
  /\ SubSeq(contents, 1, Len(prefix)) = prefix

(***************************************************************************)
(* C28: persistNewState is append-only.  No step changes or removes a line *)
(* the log holds; the step in which an append completes adds the lines of  *)
(* its batch, one per entry and in batch order, after the content the log  *)
(* had; and a call with an empty batch, or on an in-memory store, calls    *)
(* back with the log untouched and nothing in flight.                      *)
(***************************************************************************)
C28_PersistNewStateAppendsOnly ==
  [][/\ startsWith(file', file)
     /\ Len(appends') < Len(appends)
          => \E i \in 1 .. Len(appends) :
               /\ appends' = without(appends, i)
               /\ file' = file \o appends[i].toAppend
     /\ (persisted' # persisted /\ Len(appends') = Len(appends))
          => file' = file /\ appends' = appends]_vars

\* the step is the call of ensureIndex with expireAfterSeconds
ttlIndexAsked ==
  /\ nIdx' = nIdx + 1
  /\ indexCalls'[nIdx'].op = "ensureIndex"
  /\ indexCalls'[nIdx'].options.expireAfterSeconds # NoTTL

\* the step is the call of removeIndex
indexRemovalAsked ==
  /\ nIdx' = nIdx + 1
  /\ indexCalls'[nIdx'].op = "removeIndex"

(***************************************************************************)
(* C29: a TTL registration does not depend on the index of its field.      *)
(* After ensureIndex with expireAfterSeconds the field is registered in    *)
(* ttlIndexes with that delay, whether or not the field was indexed at the *)
(* call; and removeIndex leaves ttlIndexes as it was.                      *)
(***************************************************************************)
C29_TTLIndependentOfIndex ==
  [][/\ ttlIndexAsked
          => /\ indexCalls'[nIdx'].options.fieldName \in DOMAIN ttlIndexes'
             /\ ttlIndexes'[indexCalls'[nIdx'].options.fieldName] =
                  indexCalls'[nIdx'].options.expireAfterSeconds
     /\ indexRemovalAsked => ttlIndexes' = ttlIndexes]_vars

\* how many times task n occurs among the tasks of a sequence of tasks
occurrences(tasks, n) == Cardinality({i \in 1 .. Len(tasks) : tasks[i].n = n})
InBuffer(n) == \E i \in 1 .. Len(buffer) : buffer[i].n = n

\* task n is in exactly one place: the buffer, the queue, or handed to the
\* worker, and there once
inOnePlace(n) ==
  occurrences(buffer, n) + occurrences(queue, n)
    + Cardinality({i \in 1 .. Len(started) : started[i] = n}) = 1

(***************************************************************************)
(* C30: while the executor is not ready, every task pushed without forced  *)
(* queuing (every task but a loadDatabase) is in the buffer, in the order  *)
(* of arrival, and has not started.  The step that sets ready puts the     *)
(* buffered tasks at the end of the queue in that order and empties the    *)
(* buffer; a task pushed when the executor is ready goes to the end of the *)
(* queue, and the worker is handed the head of the queue.  Every task is   *)
(* in one place only, so none runs twice, and a task that waits in the     *)
(* queue of a ready executor is eventually handed to the worker.           *)
(***************************************************************************)
C30_BufferedTasksRunOnceInOrder ==
  /\ [](/\ ~ready => \A n \in 1 .. nSub :
                       opOf(n) # "load" => InBuffer(n) /\ ~Started(n) /\ ~InQueue(n)
        /\ \A i, j \in 1 .. Len(buffer) : i < j => buffer[i].n < buffer[j].n
        /\ ready => buffer = <<>>
        /\ \A n \in 1 .. nSub : inOnePlace(n))
  /\ [][/\ (~ready /\ ready') => queue' = queue \o buffer /\ buffer' = <<>>
        /\ (ready /\ nSub' = nSub + 1)
             => /\ queue' # <<>>
                /\ queue'[Len(queue')].n = nSub'
                /\ SubSeq(queue', 1, Len(queue') - 1) = queue
        /\ started' # started
             => /\ queue # <<>>
                /\ started' = Append(started, Head(queue).n)
                /\ queue' = Tail(queue)]_vars
  /\ \A n \in 1 .. MaxCalls : (ready /\ InQueue(n)) ~> Started(n)

\* a task buffered before the load has started after it, and a task with a
\* later number has started after that one
C30_Witness ==
  /\ ready
  /\ Len(started) = 3
  /\ opOf(started[1]) = "load"
  /\ started[2] < started[1]
  /\ started[2] < started[3]

(***************************************************************************)
(* C31: the completion of a task is signalled to the queue on a later tick *)
(* than the one in which the task called its callback, whatever the caller *)
(* supplied as callback: at the step in which the queue takes the signal   *)
(* (and may hand the next task to the worker) the continuation that called *)
(* the task's callback has returned.                                       *)
(***************************************************************************)
C31_CompletionOnLaterTick ==
  [][(pc = "signalled" /\ pc' # "signalled") => tick = "free"]_vars

(***************************************************************************)
(* Datastore.getCandidates, step 1, on queries with operators.  A query is *)
(* here the sequence of its clauses in the order of Object.keys(query); a  *)
(* clause constrains the key k by plain equality ("eq"), by $in ("in"), by *)
(* one of $lt, $lte, $gt, $gte ("range") or by $ne ("ne").                 *)
(***************************************************************************)
clause(k, kind, op, vals) == [k |-> k, kind |-> kind, op |-> op, vals |-> vals]

Clauses ==
  {clause(k, "eq", "", <<v>>) : k \in {"_id", "x"}, v \in {1, 2}}
  \cup {clause(k, "in", "$in", a) : k \in {"_id", "x"}, a \in {<<1, 2>>, <<2>>}}
  \cup {clause(k, "range", op, <<1>>) : k \in {"_id", "x"}, op \in {"$gt", "$lte"}}
  \cup {clause(k, "ne", "$ne", <<1>>) : k \in {"_id", "x"}}

CandQueries ==
  {<<>>} \cup {<<c>> : c \in Clauses}
  \cup {q \in {<<c, d>> : c \in Clauses, d \in Clauses} : q[1].k # q[2].k}

\* the documents of the store getCandidates is called on
CandDocs == {mkDoc(1, 1), mkDoc(2, 1), mkDoc(3, 2)}

\* its indexes: _id, and x when asked
candIndexes(withX) ==
  <<insertMultipleDocs(newIndex("_id", TRUE, FALSE), SortById(CandDocs)).ix>>
  \o (IF withX
        THEN <<insertMultipleDocs(newIndex("x", FALSE, FALSE), SortById(CandDocs)).ix>>
        ELSE <<>>)

\* Index.getMatching(value) for an array: the matches of each element, kept
\* once per _id
getMatchingArray(ix, value) ==
  UNION {getMatching(ix, value[i]) : i \in 1 .. Len(value)}

\* tree.betweenBounds(query): the documents whose key is within the bound
getBetweenBounds(ix, op, bound) ==
  {e[2] : e \in {p \in ix.tree :
                   \/ op = "$gt" /\ p[1] > bound
                   \/ op = "$gte" /\ p[1] >= bound
                   \/ op = "$lt" /\ p[1] < bound
                   \/ op = "$lte" /\ p[1] <= bound}}

\* a getCandidates that looks for a $in match before a basic match
getCandidatesInFirst(ixs, query) ==
  LET usable(kind) ==
        SelectSeq(query, LAMBDA c : c.kind = kind /\ c.k \in indexNames(ixs))
  IN IF Len(usable("in")) > 0
       THEN getMatchingArray(ixs[indexOf(ixs, usable("in")[1].k)], usable("in")[1].vals)
     ELSE IF Len(usable("eq")) > 0
       THEN getMatching(ixs[indexOf(ixs, usable("eq")[1].k)], usable("eq")[1].vals[1])
     ELSE IF Len(usable("range")) > 0
       THEN getBetweenBounds(ixs[indexOf(ixs, usable("range")[1].k)],
                             usable("range")[1].op, usable("range")[1].vals[1])
     ELSE getAllData(ixs)

\* getCandidates, step 1: usableQueryKeys for a basic match, else for a $in
\* match, else for a comparison match, else all the data
getCandidatesStep1(ixs, query) ==
  LET usable(kind) ==
        SelectSeq(query, LAMBDA c : c.kind = kind /\ c.k \in indexNames(ixs))
  IN IF Len(usable("eq")) > 0
       THEN getMatching(ixs[indexOf(ixs, usable("eq")[1].k)], usable("eq")[1].vals[1])
     ELSE IF Len(usable("in")) > 0
       THEN getMatchingArray(ixs[indexOf(ixs, usable("in")[1].k)], usable("in")[1].vals)
     ELSE IF Len(usable("range")) > 0
       THEN getBetweenBounds(ixs[indexOf(ixs, usable("range")[1].k)],
                             usable("range")[1].op, usable("range")[1].vals[1])
     ELSE getAllData(ixs)

\* a call of getCandidates on the store, with or without an index on x
CandGetCandidates ==
  /\ \E withX \in BOOLEAN, query \in CandQueries :
       candRun' = [made |-> TRUE, names |-> indexNames(candIndexes(withX)),
                   query |-> query,
                   docs |-> getCandidatesStep1(candIndexes(withX), query)]
  /\ UNCHANGED <<persistentVars, copyVars, cursorVars, appendVars, indexVars, projVars>>

CandInit ==
  /\ file = <<>>
  /\ constructed
  /\ NoObjects
  /\ NoCursor
  /\ NoAppends
  /\ NoUnits

CandNext == CandGetCandidates

CandSpec == CandInit /\ [][CandNext]_vars

\* the documents a clause admits on its own key
admits(c) ==
  {d \in CandDocs :
     \/ c.kind = "eq" /\ d[c.k] = c.vals[1]
     \/ c.kind = "in" /\ \E i \in 1 .. Len(c.vals) : d[c.k] = c.vals[i]
     \/ c.kind = "range" /\ c.op = "$gt" /\ d[c.k] > c.vals[1]
     \/ c.kind = "range" /\ c.op = "$lte" /\ d[c.k] <= c.vals[1]}

\* the positions of the clauses of a kind whose key is indexed
usableAt(kind) ==
  {i \in 1 .. Len(candRun.query) :
     candRun.query[i].kind = kind /\ candRun.query[i].k \in candRun.names}

\* the candidates are what the first usable clause of the kind admits
fromFirst(kind) ==
  \E i \in usableAt(kind) :
    /\ \A j \in usableAt(kind) : i <= j
    /\ candRun.docs = admits(candRun.query[i])

(***************************************************************************)
(* C32: the candidates of getCandidates come from one source, by fixed     *)
(* priority: what the first indexed key compared by plain equality admits; *)
(* else what the first indexed key under $in admits; else what the first   *)
(* indexed key under a comparison operator admits; else all the documents. *)
(***************************************************************************)
C32_CandidatesFromOneSource ==
  candRun.made =>
    IF usableAt("eq") # {} THEN fromFirst("eq")
    ELSE IF usableAt("in") # {} THEN fromFirst("in")
    ELSE IF usableAt("range") # {} THEN fromFirst("range")
    ELSE candRun.docs = CandDocs

\* a query whose first key is under $in and whose second key, x, is compared
\* by equality, on a store with an index on x: the index on x supplied the
\* candidates, and the two clauses admit different documents
C32_Witness ==
  /\ candRun.made
  /\ Len(candRun.query) = 2
  /\ candRun.query[1].kind = "in"
  /\ candRun.query[2].kind = "eq"
  /\ candRun.query[2].k = "x"
  /\ "x" \in candRun.names
  /\ candRun.docs = admits(candRun.query[2])
  /\ admits(candRun.query[1]) # admits(candRun.query[2])
  /\ admits(candRun.query[1]) \cap admits(candRun.query[2]) # candRun.docs

(***************************************************************************)
(* An Index on the field x used on its own (indexes.js): insert of one     *)
(* document or of an array of documents, update of one pair or of an array *)
(* of pairs, remove.  The documents it is given are the ones a Datastore   *)
(* gives it: an inserted document is not in the index, an updated one is.  *)
(***************************************************************************)
MaxIndexCalls == 3   \* calls made on the index

IndexDocs ==
  {mkDoc(id, x) : id \in 1 .. 3,
                  x \in {Undef, 1, arrayOf(1, 2), arrayOf(2, 2), arrayOf(3, 1)}}

\* Index.update(oldDoc, newDoc): remove, insert, and insert(oldDoc) on a failure
IndexUpdate(ix, oldDoc, newDoc) ==
  LET removed == IndexRemove(ix, oldDoc)
      r == IndexInsert(removed, newDoc)
  IN IF r.err THEN [err |-> TRUE, ix |-> IndexInsert(removed, oldDoc).ix]
     ELSE [err |-> FALSE, ix |-> r.ix]

\* the call returned or threw, and left the index as ix
ixCalled(op, arg, r) ==
  /\ ixCall.n < MaxIndexCalls
  /\ ixUnit' = r.ix
  /\ ixCall' = [n |-> ixCall.n + 1, op |-> op, arg |-> arg, err |-> r.err]
  /\ UNCHANGED <<persistentVars, copyVars, cursorVars, appendVars, candRun, projVars>>

newTo(ix) == {d \in IndexDocs : \A o \in getAll(ix) : o["_id"] # d["_id"]}

IxInsert ==
  \E doc \in newTo(ixUnit) :
    ixCalled("insert", <<doc>>, IndexInsert(ixUnit, doc))

IxInsertMultipleDocs ==
  \E d1 \in newTo(ixUnit), d2 \in newTo(ixUnit) :
    /\ d1["_id"] # d2["_id"]
    /\ ixCalled("insert", <<d1, d2>>, insertMultipleDocs(ixUnit, <<d1, d2>>))

\* the pairs the index can be asked to update: oldDoc is in it, newDoc has its _id
IndexPairs(ix) ==
  {p \in {[oldDoc |-> o, newDoc |-> n] : o \in getAll(ix), n \in IndexDocs} :
     p.newDoc["_id"] = p.oldDoc["_id"]}

IxUpdate ==
  \E p \in IndexPairs(ixUnit) :
    ixCalled("update", <<p>>, IndexUpdate(ixUnit, p.oldDoc, p.newDoc))

IxUpdateMultipleDocs ==
  \E p1 \in IndexPairs(ixUnit), p2 \in IndexPairs(ixUnit) :
    /\ p1.oldDoc["_id"] # p2.oldDoc["_id"]
    /\ ixCalled("update", <<p1, p2>>, updateMultipleDocs(ixUnit, <<p1, p2>>))

IxRemove ==
  \E doc \in getAll(ixUnit) :
    ixCalled("remove", <<doc>>, [err |-> FALSE, ix |-> IndexRemove(ixUnit, doc)])

IndexInit ==
  /\ file = <<>>
  /\ constructed
  /\ NoObjects
  /\ NoCursor
  /\ NoAppends
  /\ candRun = NoCall
  /\ cursor = NoCall
  /\ cursorRuns = <<>>
  /\ ixUnit \in {newIndex("x", unique, sparse) : unique \in BOOLEAN, sparse \in BOOLEAN}
  /\ ixCall = [n |-> 0, err |-> FALSE]

IndexNext ==
  \/ IxInsert
  \/ IxInsertMultipleDocs
  \/ IxUpdate
  \/ IxUpdateMultipleDocs
  \/ IxRemove

IndexSpec == IndexInit /\ [][IndexNext]_vars

(***************************************************************************)
(* C33: an Index operation that fails leaves the index as it was: after a  *)
(* call of insert (one document, its key an array or not, or an array of   *)
(* documents) or of update (one pair or an array of pairs) that threw, the *)
(* index holds the entries it held before the call.                        *)
(***************************************************************************)
C33_FailedIndexCallChangesNothing ==
  [][(ixCall'.n # ixCall.n /\ ixCall'.err) => ixUnit' = ixUnit]_vars

\* the insert of a document whose key is an array has thrown on its second
\* key: the index holds that key and not the first one, which was inserted
\* and taken back
C33_Witness ==
  /\ ixCall.n > 0
  /\ ixCall.err
  /\ ixCall.op = "insert"
  /\ Len(ixCall.arg) = 1
  /\ isArray(ixCall.arg[1]["x"])
  /\ Len(uniq(elements(ixCall.arg[1]["x"]))) = 2
  /\ \A e \in ixUnit.tree : e[1] # elements(ixCall.arg[1]["x"])[1]
  /\ \E e \in ixUnit.tree : e[1] = elements(ixCall.arg[1]["x"])[2]

(***************************************************************************)
(* C34: when the executor hands a task to the worker, the callback of      *)
(* every task handed over before it that was submitted with a callback has *)
(* been invoked, once.                                                     *)
(***************************************************************************)
C34_CallbackBeforeNextTask ==
  [][started' # started
       => \A i \in 1 .. Len(started) :
            submitted[started[i]].hasCb => Len(calls[started[i]]) = 1]_vars

\* a second task with a callback has just been handed to the worker, after a
\* first one whose callback was invoked
C34_Witness ==
  /\ pc = "begin"
  /\ Len(started) = 2
  /\ submitted[started[1]].hasCb
  /\ submitted[started[2]].hasCb
  /\ opOf(started[2]) # "load"
  /\ Len(calls[started[1]]) = 1
  /\ calls[started[2]] = <<>>

(***************************************************************************)
(* C35: no log entry is lost to interleaved writers: whatever the          *)
(* interleaving of the appends of ensureIndex / removeIndex with the       *)
(* append of the running task, a line the log holds (a line of the log at  *)
(* start, or one whose append has called back) is still in the log after   *)
(* every step.  No compaction runs in this specification.                  *)
(***************************************************************************)
C35_NoEntryLostToInterleaving ==
  [][\A i \in 1 .. Len(file) : \E j \in 1 .. Len(file') : file'[j] = file[i]]_vars

\* the step is a call of ensureIndex that called back with an error
ensureIndexFailed ==
  /\ nIdx' = nIdx + 1
  /\ indexCalls'[nIdx'].op = "ensureIndex"
  /\ indexCalls'[nIdx'].did = "err"

(***************************************************************************)
(* C36: an ensureIndex that fails leaves the TTL registrations as they     *)
(* were: ttlIndexes has the entries it had before the call, so no stored   *)
(* document is stale after the call that was not stale before it.          *)
(***************************************************************************)
C36_FailedEnsureIndexKeepsTTL ==
  [][ensureIndexFailed
       => /\ ttlIndexes' = ttlIndexes
          /\ \A d \in getAllData(indexes) : stale(d, ttlIndexes') => stale(d, ttlIndexes)]_vars

(***************************************************************************)
(* The index calls of a store with any field name: ensureIndex on x and    *)
(* removeIndex on x or on _id, and the appends of their markers.           *)
(***************************************************************************)
removeAnyIndex == \E fieldName \in {"_id", "x"} : removeIndexOf(fieldName)

IndexCallsNext ==
  \/ ensureIndex
  \/ removeAnyIndex
  \/ MarkerAppendDone

IndexCallsSpec == Init /\ [][IndexCallsNext]_vars

(***************************************************************************)
(* C37: in every reachable state indexes holds the _id index, unique, as   *)
(* the constructor made it, so that getAllData is defined.                 *)
(***************************************************************************)
C37_IdIndexAlwaysThere ==
  \E i \in 1 .. Len(indexes) : indexes[i].fieldName = "_id" /\ indexes[i].unique

(***************************************************************************)
(* C38: a loadDatabase that fails leaves the documents in memory as they   *)
(* were when it was called: at the step where a load reports its failure   *)
(* (the read or the treatment of the log failed, or the rewrite failed and *)
(* the callback got the error) the store holds the documents it held       *)
(* before the call.                                                        *)
(***************************************************************************)
\* the step at which the running loadDatabase fails
loadFails ==
  /\ cur.op = "load"
  /\ pc \in {"read", "loadrewrite"}
  /\ pc' = "signalled"
  /\ pc = "read" \/ calls'[cur.n] = <<"err">>

C38_FailedLoadKeepsCache ==
  [][loadFails => getAllData(indexes') = cacheAtLoad]_vars

(***************************************************************************)
(* Cursor.projection, Cursor.project and a cursor that is executed more    *)
(* than once (cursor.js).  A projection is the object the cursor keeps in  *)
(* _projection: a function from field names to 0 or 1, or undefined.       *)
(***************************************************************************)
MaxRuns == 2

\* this._projection of a cursor projection() was not called on
NoProjection == [defined |-> FALSE, fields |-> EmptyQuery]
projectionOf(fields) == [defined |-> TRUE, fields |-> fields]

\* the object literals given to cursor.projection
fieldsOf(id, f, g) ==
  [k \in {n \in {"_id", "f", "g"} :
            (n = "_id" /\ id # Undef) \/ (n = "f" /\ f # Undef) \/ (n = "g" /\ g # Undef)}
     |-> IF k = "_id" THEN id ELSE IF k = "f" THEN f ELSE g]
Projections ==
  {NoProjection} \cup
  {projectionOf(fieldsOf(id, fg[1], fg[2])) :
     id \in {Undef, 0, 1},
     fg \in {<<Undef, Undef>>, <<1, Undef>>, <<Undef, 0>>, <<1, 1>>, <<1, 0>>}}

\* const { _id, ...rest } = this._projection
restOf(fields) == [k \in DOMAIN fields \ {"_id"} |-> fields[k]]

\* the document project pushes for one candidate
projectOne(candidate, keys, pick, keepId) ==
  LET kept == IF pick
                THEN {k \in keys : getDotValue(candidate, k) # Undef}
                ELSE DOMAIN candidate \ keys
      names == IF keepId THEN kept \cup {"_id"} ELSE kept \ {"_id"}
  IN [k \in names |-> candidate[k]]

\* Cursor.project(candidates): the array it returns or the error it throws,
\* and this._projection afterwards
project(projection, candidates) ==
  IF ~projection.defined \/ DOMAIN projection.fields = {}
    THEN [err |-> FALSE, res |-> candidates, projection |-> projection]
  ELSE LET keepId == ~("_id" \in DOMAIN projection.fields /\ projection.fields["_id"] = 0)
           rest == restOf(projection.fields)
           keys == DOMAIN rest
       IN IF \E k \in keys, l \in keys : rest[k] # rest[l]
            THEN [err |-> TRUE, res |-> <<>>, projection |-> projectionOf(rest)]
            ELSE [err |-> FALSE,
                  res |-> [i \in 1 .. Len(candidates) |->
                             projectOne(candidates[i], keys,
                                        \E k \in keys : rest[k] = 1, keepId)],
                  projection |-> projectionOf(rest)]

\* the stores the cursor is run against
ProjStores ==
  {<<>>, <<cdoc(1, 1, 1)>>, <<cdoc(1, 1, 1), cdoc(2, 2, 1)>>,
   <<cdoc(2, 1, 2), cdoc(1, 2, 1), cdoc(3, 1, 1)>>}

\* db.find(query).sort(..).skip(..).limit(..).projection(..): the cursor is kept
ProjFind ==
  /\ ~cursor.made
  /\ \E query \in {EmptyQuery, queryOn("f", 1)}, sort \in {<<>>, SortFG},
        skip \in {Undef, 1}, limit \in {Undef, 1}, projection \in Projections :
       cursor' = [made |-> TRUE, query |-> query, sort |-> sort, skip |-> skip,
                  limit |-> limit, projection |-> projection]
  /\ UNCHANGED <<cursorRuns, candRun, indexVars, persistentVars, copyVars,
                 cursorVars, appendVars>>

\* cursor.exec(callback), run by the executor: _exec, then project
ProjExec ==
  /\ cursor.made
  /\ Len(cursorRuns) < MaxRuns
  /\ \E r \in {project(cursor.projection,
                       cursorExec(cursorCandidates(inserted, fIndex, cursor.query),
                                  cursor.query, cursor.sort, cursor.skip,
                                  cursor.limit))} :
       /\ cursorRuns' = Append(cursorRuns, [err |-> r.err, res |-> r.res])
       /\ cursor' = [cursor EXCEPT !.projection = r.projection]
  /\ UNCHANGED <<candRun, indexVars, persistentVars, copyVars, cursorVars,
                 appendVars>>

ProjInit ==
  /\ file = <<>>
  /\ constructed
  /\ NoObjects
  /\ inserted \in ProjStores
  /\ fIndex = NoIndex
  /\ cursorRes = NoRun
  /\ NoAppends
  /\ NoUnits

ProjNext ==
  \/ ProjFind
  \/ ProjExec

ProjSpec == ProjInit /\ [][ProjNext]_vars

(***************************************************************************)
(* C39: executing the same cursor twice against an unchanged store returns *)
(* equal results: an exec leaves the cursor's query, sort, skip, limit and *)
(* projection as they were, and calls back with what the exec before it    *)
(* called back with.                                                       *)
(***************************************************************************)
C39_ExecTwiceSameResults ==
  [][Len(cursorRuns') > Len(cursorRuns)
       => /\ cursor' = cursor
          /\ Len(cursorRuns) >= 1
               => cursorRuns'[Len(cursorRuns')] = cursorRuns[Len(cursorRuns)]]_vars

(***************************************************************************)
(* A persistent store that is used, closed and opened again: a new         *)
(* Datastore on the same datafile, then loadDatabase.  Every call runs to  *)
(* the callback of its storage call, and no storage call fails.            *)
(***************************************************************************)
RestartDocs == {mkDoc(1, OldDate), mkDoc(2, 1)}

restVars == <<buffer, queue, workers, active, started, taskVars, markers, nextId, nSub,
              submitted, calls, results, ioFailed, copyVars, cursorVars, appendVars,
              unitVars>>

\* new Datastore({ filename }): the _id index, no TTL registration, an executor
\* that is not ready
RsNewDatastore ==
  /\ ready
  /\ indexes' = <<newIndex("_id", TRUE, FALSE)>>
  /\ ttlIndexes' = [f \in {} |-> 0]
  /\ ready' = FALSE
  /\ UNCHANGED <<file, nIdx, indexCalls, restVars>>

\* db.loadDatabase(): the indexes are reset, recreated from the markers of the
\* log and filled, the log is rewritten, the executor becomes ready
RsLoadDatabase ==
  /\ ~ready
  /\ \E r \in {readFileCallback(resetIndexes(indexes, FALSE, <<>>).ixs, file, FALSE)} :
       /\ indexes' = r.ixs
       /\ file' = IF r.err THEN file ELSE cachedDatabaseLines(r.ixs)
       /\ ready' = ~r.err
  /\ UNCHANGED <<ttlIndexes, nIdx, indexCalls, restVars>>

\* db.insert(doc)
RsInsert ==
  /\ ready
  /\ \E d \in RestartDocs :
       /\ d \notin getAllData(indexes)
       /\ \E r \in {addToIndexes(indexes, d)} :
            /\ indexes' = r.ixs
            /\ file' = IF r.err THEN file ELSE appendFile(file, <<serialize(d)>>)
  /\ UNCHANGED <<ttlIndexes, ready, nIdx, indexCalls, restVars>>

\* db.ensureIndex(options), with the append of its marker
RsEnsureIndex ==
  /\ ready
  /\ nIdx < MaxCalls
  /\ nIdx' = nIdx + 1
  /\ \E options \in IndexOptions :
       IF options.fieldName \in indexNames(indexes)
         THEN /\ indexCalls' = Append(indexCalls, indexCall("ensureIndex", options, "ok"))
              /\ UNCHANGED <<file, indexes, ttlIndexes>>
         ELSE \E r \in {insertMultipleDocs(
                          newIndex(options.fieldName, options.unique, options.sparse),
                          SortById(getAllData(indexes)))} :
                /\ ttlIndexes' =
                     IF options.expireAfterSeconds # NoTTL
                       THEN [f \in DOMAIN ttlIndexes \cup {options.fieldName} |->
                               IF f = options.fieldName THEN options.expireAfterSeconds
                               ELSE ttlIndexes[f]]
                       ELSE ttlIndexes
                /\ IF r.err
                     THEN /\ indexCalls' =
                               Append(indexCalls, indexCall("ensureIndex", options, "err"))
                          /\ UNCHANGED <<file, indexes>>
                     ELSE /\ indexes' = Append(indexes, r.ix)
                          /\ file' = appendFile(file, <<indexCreated(options)>>)
                          /\ indexCalls' =
                               Append(indexCalls, indexCall("ensureIndex", options, "append"))
  /\ UNCHANGED <<ready, restVars>>

\* db.removeIndex('x'), with the append of its marker
RsRemoveIndex ==
  /\ ready
  /\ nIdx < MaxCalls
  /\ nIdx' = nIdx + 1
  /\ indexes' = SelectSeq(indexes, LAMBDA ix : ix.fieldName # "x")
  /\ file' = appendFile(file, <<indexRemoved("x")>>)
  /\ indexCalls' = Append(indexCalls,
                          indexCall("removeIndex", [fieldName |-> "x"], "append"))
  /\ UNCHANGED <<ttlIndexes, ready, restVars>>

\* db.persistence.compactDatafile()
RsCompactDatafile ==
  /\ ready
  /\ file' = cachedDatabaseLines(indexes)
  /\ UNCHANGED <<indexes, ttlIndexes, ready, nIdx, indexCalls, restVars>>

RestartInit ==
  /\ file = <<>>
  /\ constructed
  /\ NoObjects
  /\ NoCursor
  /\ NoAppends
  /\ NoUnits

RestartNext ==
  \/ RsNewDatastore
  \/ RsLoadDatabase
  \/ RsInsert
  \/ RsEnsureIndex
  \/ RsRemoveIndex
  \/ RsCompactDatafile

RestartSpec == RestartInit /\ [][RestartNext]_vars

\* the last ensureIndex / removeIndex call made on the datafile created a TTL index
lastCallMadeTTLIndex ==
  /\ indexCalls # <<>>
  /\ indexCalls[Len(indexCalls)].op = "ensureIndex"
  /\ indexCalls[Len(indexCalls)].did = "append"
  /\ indexCalls[Len(indexCalls)].options.expireAfterSeconds # NoTTL

(***************************************************************************)
(* C40: TTL registrations survive a reload: once ensureIndex with          *)
(* expireAfterSeconds has created the index on x and no later call has     *)
(* removed it, every loaded store on that datafile, the one that made the  *)
(* call and each fresh store that loaded the log before or after a         *)
(* compaction, has x registered in ttlIndexes with that delay.             *)
(***************************************************************************)
C40_TTLSurvivesReload ==
  (ready /\ lastCallMadeTTLIndex)
    => /\ "x" \in DOMAIN ttlIndexes
       /\ ttlIndexes["x"] = indexCalls[Len(indexCalls)].options.expireAfterSeconds

====
